---- MODULE Spec2Model ----
(***************************************************************************)
(* A model of the open-persona orchestration core: the tool registry and   *)
(* its guardrails, the orchestrator's tool-call loop with provider         *)
(* fallback, the chat:send handler with turn cancellation, and the         *)
(* retrieval engine's lexical chunk cache.                                 *)
(***************************************************************************)
EXTENDS Integers, Sequences, FiniteSets, TLC

VARIABLES
  callCount,      \* ToolGuardrails.callCount
  lastExec,       \* the last direct ToolRegistry.execute call and what it did
  configured,     \* LLMRouter.providers: the registered providers
  activeModel,    \* LLMRouter.activeProvider / activeModel
  provCtl,        \* per provider: the turn whose stream set abortController (0: null)
  active,         \* ipc-handlers activeAbortController: its turn (0: null)
  turns,          \* per chat:send invocation: the handler's and orchestrator's locals
  history,        \* chatHistoryByCharacter entry of the persona
  usage,          \* TokenTracker records
  lastSent,       \* the last fragment sent to the renderer
  store,          \* per persona and index type: the chunk ids in the vector store
  chunkCache,     \* RAGEngine.chunkCache, in insertion order
  ops,            \* per RAGEngine call: its position and locals
  ragLog,         \* chunk ids handed out, committed, removed, gone
  pipeline,       \* one search call: its inputs, fused list, reranker reply, results
  dataDir,        \* config.dataDir: the marker file and the index folders
  boot            \* the startup chain and the engine calls it makes

toolVars == <<callCount, lastExec>>
chatVars == <<configured, activeModel, provCtl, active, turns, history, usage, lastSent>>
kbVars == <<pipeline, dataDir, boot>>
ragVars == <<store, chunkCache, ops, ragLog, kbVars>>
vars == <<callCount, lastExec, configured, activeModel, provCtl, active, turns,
          history, usage, lastSent, store, chunkCache, ops, ragLog,
          pipeline, dataDir, boot>>

None == [kind |-> "none"]

(***************************************************************************)
(* Argument values of a tool call.  The arguments are parsed JSON of       *)
(* unknown type (Record<string, unknown>): a value is undefined, a number, *)
(* or a string.  A string used as a path is a list of segments, absolute   *)
(* or relative; a string used as content has a byte length.                *)
(***************************************************************************)
Undefined == [t |-> "undefined", abs |-> FALSE, segs |-> <<>>, bytes |-> 0]
NumberVal == [t |-> "number", abs |-> FALSE, segs |-> <<>>, bytes |-> 0]
PathStr(abs, segs) == [t |-> "string", abs |-> abs, segs |-> segs, bytes |-> 0]
ContentStr(n) == [t |-> "string", abs |-> FALSE, segs |-> <<>>, bytes |-> n]
EmptyStr == PathStr(FALSE, <<>>)

\* JavaScript truthiness of an argument value (undefined and "" are falsy).
Truthy(v) ==
  \/ v.t = "number"
  \/ v.t = "string" /\ (v.abs \/ v.segs # <<>> \/ v.bytes > 0)

\* process.env.HOME and process.cwd() of the main process.
Home == <<"home", "user">>
Cwd == <<"home", "user", "work">>

maxToolCallsPerSession == 30
maxFileSizeBytes == 10485760
TOOL_TIMEOUT_MS == 30000
EXCEL_TOOL_TIMEOUT_MS == 60000

requireConfirmation == {"deleteFile", "moveFile", "writeFile", "writeExcel"}

blockedPaths ==
  { <<"System">>, <<"usr">>, <<"bin">>, <<"sbin">>, <<"Library">>,
    <<"private">>, <<"var">>, <<"etc">>,
    Home \o <<".ssh">>, Home \o <<".gnupg">>, Home \o <<".aws">> }

\* The tools registered at startup: createFsTools() and createExcelTools().
RegisteredTools ==
  { "readFile", "writeFile", "listDirectory", "createDirectory", "deleteFile",
    "moveFile", "copyFile", "fileInfo", "readExcel", "writeExcel", "queryExcel" }

ArgKeys == {"path", "sourcePath", "targetPath", "dirPath", "outputPath", "content"}

\* path.resolve: a relative path is joined to the working directory, then
\* "." is dropped and ".." removes the segment before it (none at the root).
RECURSIVE Normalize(_, _)
Normalize(segs, acc) ==
  IF segs = <<>> THEN acc
  ELSE LET s == Head(segs) IN
       Normalize(Tail(segs),
                 IF s = ".."
                   THEN (IF acc = <<>> THEN acc ELSE SubSeq(acc, 1, Len(acc) - 1))
                   ELSE IF s = "." THEN acc ELSE Append(acc, s))

PathResolve(p) == Normalize(IF p.abs THEN p.segs ELSE Cwd \o p.segs, <<>>)

\* String.startsWith on one path segment: the segment names of the model that
\* have another segment name as a proper textual prefix.
SegmentPrefixes == { <<"usr", "usrdata">>, <<"etc", "etcetera">> }
SegStartsWith(s, b) == s = b \/ <<b, s>> \in SegmentPrefixes

\* resolved.startsWith(blocked) on the path text "/a/b/c": every segment of
\* blocked but the last is equal, and the last is a textual prefix.
StartsWithMutant(resolved, blocked) ==
  /\ Len(resolved) >= Len(blocked)
  /\ resolved = blocked
StartsWith(resolved, blocked) ==
  /\ Len(resolved) >= Len(blocked)
  /\ \A i \in 1..(Len(blocked) - 1) : resolved[i] = blocked[i]
  /\ SegStartsWith(resolved[Len(blocked)], blocked[Len(blocked)])

\* extractPath: args.path ?? args.sourcePath ?? args.targetPath ?? args.dirPath
extractPath(args) ==
  IF args.path.t # "undefined" THEN args.path
  ELSE IF args.sourcePath.t # "undefined" THEN args.sourcePath
  ELSE IF args.targetPath.t # "undefined" THEN args.targetPath
  ELSE args.dirPath

\* ToolGuardrails.validate.  kind is "allowed", "denied", or "threw" when
\* path.resolve or Buffer.byteLength is handed a truthy non-string value
\* (a TypeError).  count is the call counter after the validation.
CallLimitReachedMutant(count) == count > maxToolCallsPerSession
CallLimitReached(count) == count >= maxToolCallsPerSession

validate(count, toolName, args) ==
  IF CallLimitReached(count)
    THEN [kind |-> "denied", reason |-> "callLimit", count |-> count]
  ELSE LET targetPath == extractPath(args) IN
    IF Truthy(targetPath) /\ targetPath.t # "string"
      THEN [kind |-> "threw", reason |-> "TypeError", count |-> count]
    ELSE IF Truthy(targetPath)
            /\ \E blocked \in blockedPaths :
                 StartsWith(PathResolve(targetPath), blocked)
      THEN [kind |-> "denied", reason |-> "blockedPath", count |-> count]
    ELSE IF toolName = "writeFile" /\ Truthy(args.content)
            /\ args.content.t # "string"
      THEN [kind |-> "threw", reason |-> "TypeError", count |-> count]
    ELSE IF toolName = "writeFile" /\ Truthy(args.content)
            /\ args.content.bytes > maxFileSizeBytes
      THEN [kind |-> "denied", reason |-> "fileSize", count |-> count]
    ELSE [kind |-> "allowed", reason |-> "", count |-> count + 1]

isExcelTool(name) == name \in {"readExcel", "writeExcel", "queryExcel"}

\* What the executor of an allowed call does: it returns a result of its own
\* (the tools set toolCallId to ''), throws, or never completes.
ExecutorOutcomes == {"success", "failure", "throws", "hangs"}

\* ToolRegistry.execute.  outcome "result" is the resolved ToolResult,
\* "rejected" is a rejected promise.  ran: the executor was started;
\* running: the executor is still running when execute returns.
ExecuteAllowed(call, count, exec) ==
  LET timeout == IF isExcelTool(call.name) THEN EXCEL_TOOL_TIMEOUT_MS
                 ELSE TOOL_TIMEOUT_MS
  IN CASE exec = "success" ->
            [outcome |-> "result", toolCallId |-> "", success |-> TRUE,
             error |-> "", ran |-> TRUE, running |-> FALSE, count |-> count,
             waitedMs |-> 0]
       [] exec = "failure" ->
            [outcome |-> "result", toolCallId |-> "", success |-> FALSE,
             error |-> "toolError", ran |-> TRUE, running |-> FALSE,
             count |-> count, waitedMs |-> 0]
       [] exec = "throws" ->
            [outcome |-> "result", toolCallId |-> call.id, success |-> FALSE,
             error |-> "thrown", ran |-> TRUE, running |-> FALSE,
             count |-> count, waitedMs |-> 0]
       [] exec = "hangs" ->
            [outcome |-> "result", toolCallId |-> call.id, success |-> FALSE,
             error |-> "timeout", ran |-> TRUE, running |-> TRUE,
             count |-> count, waitedMs |-> timeout]

execute(call, count, tools, exec) ==
  IF call.name \notin tools
    THEN [outcome |-> "result", toolCallId |-> call.id, success |-> FALSE,
          error |-> "unknownTool", ran |-> FALSE, running |-> FALSE,
          count |-> count, waitedMs |-> 0]
  ELSE LET validation == validate(count, call.name, call.args) IN
    IF validation.kind = "threw"
      THEN [outcome |-> "rejected", toolCallId |-> call.id, success |-> FALSE,
            error |-> validation.reason, ran |-> FALSE, running |-> FALSE,
            count |-> validation.count, waitedMs |-> 0]
    ELSE IF validation.kind = "denied"
      THEN [outcome |-> "result", toolCallId |-> call.id, success |-> FALSE,
            error |-> validation.reason, ran |-> FALSE, running |-> FALSE,
            count |-> validation.count, waitedMs |-> 0]
    ELSE ExecuteAllowed(call, validation.count, exec)

(***************************************************************************)
(* The tool calls a model may request.  Arguments outside a tool's schema  *)
(* are undefined; the values of a schema argument are drawn from the paths *)
(* and contents below.                                                     *)
(***************************************************************************)
OkAbs == PathStr(TRUE, <<"home", "user", "doc.txt">>)
OkRel == PathStr(FALSE, <<"notes.txt">>)
EtcAbs == PathStr(TRUE, <<"etc", "passwd">>)
EtcDotDot == PathStr(TRUE, <<"home", "..", "etc", "passwd">>)
SshRel == PathStr(FALSE, <<"..", ".ssh", "id_rsa">>)
UsrData == PathStr(TRUE, <<"usrdata", "x">>)

NoArgs == [k \in ArgKeys |-> Undefined]
Args1(k, v) == [NoArgs EXCEPT ![k] = v]
Args2(k1, v1, k2, v2) == [NoArgs EXCEPT ![k1] = v1, ![k2] = v2]

ToolArgs ==
  [ readFile |->
      { Args1("path", v) : v \in { OkAbs, OkRel, EtcAbs, EtcDotDot, SshRel,
                                    UsrData, EmptyStr, Undefined, NumberVal } },
    writeFile |->
      { Args2("path", OkAbs, "content", c) :
          c \in { Undefined, NumberVal, ContentStr(100),
                  ContentStr(maxFileSizeBytes), ContentStr(maxFileSizeBytes + 1) } }
      \cup { Args2("path", EtcAbs, "content", ContentStr(100)) },
    listDirectory |->
      { Args1("dirPath", v) : v \in {OkAbs, EtcAbs} },
    moveFile |->
      { Args2("sourcePath", s, "targetPath", d) :
          s \in {OkAbs, EtcAbs, Undefined},
          d \in {OkAbs, EtcDotDot, Undefined} },
    queryExcel |->
      { Args2("path", p, "outputPath", o) :
          p \in {OkAbs, EtcAbs}, o \in {OkAbs, EtcAbs} },
    unknownTool |->
      { Args1("path", v) : v \in {OkAbs, EtcAbs} } ]

CallIds == {"call_1"}

ToolCallInputs ==
  { [id |-> i, name |-> n, args |-> a] :
      i \in CallIds,
      n \in DOMAIN ToolArgs,
      a \in UNION { ToolArgs[m] : m \in DOMAIN ToolArgs } }

ValidToolCalls == { c \in ToolCallInputs : c.args \in ToolArgs[c.name] }

(***************************************************************************)
(* The registry on its own: any caller may execute any call and reset the  *)
(* session.                                                                *)
(***************************************************************************)
(***************************************************************************)
(* The tail of RAGEngine.search: reciprocal-rank fusion of the vector and  *)
(* the lexical list, then the reranker.  A result is known by its chunk    *)
(* id; a fused score is a rational n/d.                                    *)
(***************************************************************************)
MaxTopK == 2             \* largest topK of a search request
MaxChunkIds == 3         \* distinct chunks the two lists draw from
MaxReplyBody == 3        \* tokens between the brackets of a reranker reply
RRF_K == 60

ChunkIds == 1..MaxChunkIds

RECURSIVE SeqsUpTo(_, _)
SeqsUpTo(S, n) ==
  IF n = 0 THEN {<<>>}
  ELSE LET shorter == SeqsUpTo(S, n - 1) IN
       shorter \cup {Append(q, x) : q \in {r \in shorter : Len(r) = n - 1}, x \in S}

NoDuplicates(q) == \A i, j \in DOMAIN q : i # j => q[i] # q[j]

\* Array.prototype.slice(0, n)
SliceTo(q, n) == SubSeq(q, 1, IF n < Len(q) THEN n ELSE Len(q))

\* a + b and a > b on the fused scores
ScoreAdd(a, b) == [n |-> a.n * b.d + b.n * a.d, d |-> a.d * b.d]
ScoreGreater(a, b) == a.n * b.d > b.n * a.d

\* 1 / (k + rank + 1), rank counted from 0 (position p = rank + 1)
RrfScoreMutant(p) == [n |-> 1, d |-> p]
RrfScore(p) == [n |-> 1, d |-> RRF_K + p]

PositionOf(q, id) == CHOOSE i \in DOMAIN q : q[i] = id
Holds(q, id) == \E i \in DOMAIN q : q[i] = id

\* Array.prototype.sort((a, b) => b.rrfScore - a.rrfScore): stable, so equal
\* scores keep the insertion order of the map.
RECURSIVE SortByScore(_)
SortByScore(entries) ==
  IF entries = <<>> THEN <<>>
  ELSE LET best == CHOOSE i \in DOMAIN entries :
                     /\ \A j \in DOMAIN entries :
                          ~ScoreGreater(entries[j].rrfScore, entries[i].rrfScore)
                     /\ \A j \in 1..(i - 1) :
                          ScoreGreater(entries[i].rrfScore, entries[j].rrfScore)
       IN <<entries[best]>> \o
          SortByScore(SubSeq(entries, 1, best - 1) \o
                      SubSeq(entries, best + 1, Len(entries)))

\* mergeWithRRF: the score map in insertion order (the vector list first,
\* then the lexical results not yet present), sorted and cut to topK.
mergeWithRRF(semanticResults, keywordResults, topK) ==
  LET fresh == SelectSeq(keywordResults, LAMBDA id : ~Holds(semanticResults, id))
      order == semanticResults \o fresh
      scoreMap == [i \in DOMAIN order |->
        [id |-> order[i],
         rrfScore |->
           IF Holds(semanticResults, order[i]) /\ Holds(keywordResults, order[i])
             THEN ScoreAdd(RrfScore(PositionOf(semanticResults, order[i])),
                           RrfScore(PositionOf(keywordResults, order[i])))
           ELSE IF Holds(semanticResults, order[i])
             THEN RrfScore(PositionOf(semanticResults, order[i]))
           ELSE RrfScore(PositionOf(keywordResults, order[i]))]]
      sorted == SortByScore(scoreMap)
  IN SliceTo([i \in DOMAIN sorted |-> sorted[i].id], topK)

(***************************************************************************)
(* The reranker's reply is a text, kept as its tokens: Other is any run of *)
(* other characters, Num(n) a run of digits that reads n.                  *)
(***************************************************************************)
Other == [t |-> "other", n |-> 0]
Open == [t |-> "[", n |-> 0]
Close == [t |-> "]", n |-> 0]
Comma == [t |-> ",", n |-> 0]
Blank == [t |-> " ", n |-> 0]
Num(n) == [t |-> "digits", n |-> n]

\* Indices a reply names: two that are in range and one that never is.
ReplyNumbers == {0, 1, 2 * MaxTopK}
BodyTokens == {Comma, Blank} \cup {Num(n) : n \in ReplyNumbers}
IsNumber(tok) == tok.t = "digits"

\* Two runs of digits are never adjacent: they are one number.
ReplyBodies ==
  {b \in SeqsUpTo(BodyTokens, MaxReplyBody) :
     \A i \in 1..(Len(b) - 1) : ~(IsNumber(b[i]) /\ IsNumber(b[i + 1]))}

ReplyTexts ==
  {pre \o open \o body \o close :
     pre \in {<<>>, <<Other>>}, open \in {<<>>, <<Open>>},
     body \in ReplyBodies, close \in {<<>>, <<Close>>}}

\* response.match(/\[[\d\s,]+\]/): the leftmost "[" followed by one or more
\* digits, blanks and commas and then "]"; <<>> stands for no match.
MatchesAt(text, i, j) ==
  /\ text[i] = Open /\ text[j] = Close /\ j > i + 1
  /\ \A m \in (i + 1)..(j - 1) : text[m].t \in {"digits", " ", ","}

RegexMatch(text) ==
  LET starts == {i \in DOMAIN text : \E j \in DOMAIN text : MatchesAt(text, i, j)} IN
  IF starts = {} THEN <<>>
  ELSE LET i == CHOOSE a \in starts : \A b \in starts : a <= b
           j == CHOOSE e \in DOMAIN text : MatchesAt(text, i, e)
       IN SubSeq(text, i, j)

\* JSON.parse of the matched text: blanks are skipped; what is left between
\* the brackets is empty or numbers separated by single commas.
JsonBody(match) ==
  SelectSeq(SubSeq(match, 2, Len(match) - 1), LAMBDA tok : tok # Blank)

JsonParses(match) ==
  LET b == JsonBody(match) IN
  \/ b = <<>>
  \/ /\ Len(b) % 2 = 1
     /\ \A i \in DOMAIN b : IF i % 2 = 1 THEN IsNumber(b[i]) ELSE b[i] = Comma

JsonParse(match) ==
  LET nums == SelectSeq(JsonBody(match), IsNumber) IN
  [i \in DOMAIN nums |-> nums[i].n]

\* parseIndices(response, maxIndex)
parseIndices(response, maxIndex) ==
  LET match == RegexMatch(response) IN
  IF match = <<>> THEN <<>>
  ELSE IF ~JsonParses(match) THEN <<>>
  ELSE SelectSeq(JsonParse(match), LAMBDA n : n >= 0 /\ n < maxIndex)

\* What llmCall(prompt) does: it throws, or it returns a text.
Threw == [threw |-> TRUE, text |-> <<>>]
Replied(text) == [threw |-> FALSE, text |-> text]
LlmOutcomes == {Threw} \cup {Replied(text) : text \in ReplyTexts}

\* rerankWithLLM(query, results, topK, llmCall)
rerankFallbackMutant(results, topK) == results

rerankFallback(results, topK) == SliceTo(results, topK)

rerankWithLLM(results, topK, llm) ==
  IF Len(results) <= topK THEN results
  ELSE IF llm.threw THEN rerankFallback(results, topK)
  ELSE LET indices == parseIndices(llm.text, Len(results)) IN
       IF Len(indices) = 0 THEN rerankFallback(results, topK)
       ELSE LET picked == SliceTo(indices, topK) IN
            [i \in DOMAIN picked |-> results[picked[i] + 1]]

\* The reply holds no index array that parses.
NoIndexArray(llm) ==
  ~llm.threw /\ (RegexMatch(llm.text) = <<>> \/ ~JsonParses(RegexMatch(llm.text)))

NoLlm == [threw |-> FALSE, text |-> <<>>]

IdlePipeline ==
  [ pc |-> "idle", topK |-> 0, useReranking |-> FALSE,
    semanticResults |-> <<>>, keywordResults |-> <<>>,
    merged |-> <<>>, llm |-> NoLlm, reranked |-> FALSE, results |-> <<>> ]

RankedLists == {q \in SeqsUpTo(ChunkIds, 2 * MaxTopK) : NoDuplicates(q)}

\* search, after the vector queries and the keyword search: both lists hold
\* at most 2 * topK results.
SearchInputs ==
  {in \in {[IdlePipeline EXCEPT !.pc = "fuse", !.topK = k, !.useReranking = u,
                                !.semanticResults = s, !.keywordResults = w] :
              k \in 1..MaxTopK, u \in BOOLEAN, s \in RankedLists, w \in RankedLists} :
     /\ Len(in.semanticResults) <= 2 * in.topK
     /\ Len(in.keywordResults) <= 2 * in.topK}

\* search: mergeWithRRF, and the return without the reranker
SearchFuse ==
  /\ pipeline.pc = "fuse"
  /\ LET merged == mergeWithRRF(pipeline.semanticResults,
                                pipeline.keywordResults, pipeline.topK * 2)
     IN IF pipeline.useReranking /\ Len(merged) > pipeline.topK
          THEN pipeline' = [pipeline EXCEPT !.pc = "rerank", !.merged = merged]
          ELSE pipeline' = [pipeline EXCEPT !.pc = "done", !.merged = merged,
                                            !.results = SliceTo(merged, pipeline.topK)]
  /\ UNCHANGED <<toolVars, chatVars, store, chunkCache, ops, ragLog,
                 dataDir, boot>>

\* search: return rerankWithLLM(query, merged, topK, quickLLMCall)
SearchRerank(llm) ==
  /\ pipeline.pc = "rerank"
  /\ pipeline' = [pipeline EXCEPT
       !.pc = "done", !.llm = llm, !.reranked = TRUE,
       !.results = rerankWithLLM(pipeline.merged, pipeline.topK, llm)]
  /\ UNCHANGED <<toolVars, chatVars, store, chunkCache, ops, ragLog,
                 dataDir, boot>>

(***************************************************************************)
(* The persisted knowledge base: config.dataDir holds the marker file      *)
(* .embedding-model and one index folder per persona and index type.  An   *)
(* item of an index is known by its id and its sourceUri.                  *)
(***************************************************************************)
MaxRuns == 2             \* application starts modelled
MaxRawChunks == 2        \* raw chunks of one indexChunks call
MaxEngineCalls == 4      \* engine calls made after the startup

\* CHARACTER_KNOWLEDGE, in Object.entries order
CHARACTER_KNOWLEDGE == <<"pig", "fox", "rabbit">>
KnowledgePersonas == {CHARACTER_KNOWLEDGE[i] : i \in DOMAIN CHARACTER_KNOWLEDGE}

\* The bundled knowledge: per persona the files collectMarkdownFiles finds,
\* each with the number of raw chunks chunkSections cuts it into.  A persona
\* without a knowledge directory has none.
KnowledgeFiles == [p \in KnowledgePersonas |->
  IF p = "pig" THEN <<[name |-> "guide.md", chunks |-> 2]>>
  ELSE IF p = "fox" THEN <<[name |-> "guide.md", chunks |-> 1],
                           [name |-> "faq.md", chunks |-> 1]>>
  ELSE <<>>]
HasKnowledgeDir(p) == KnowledgeFiles[p] # <<>>

\* `${modelName}:${dimensions}` of the two embedding adapters
EmbeddingModels == {"gemini-embedding-001:768", "text-embedding-3-small:1536"}

EmptyIndexes == [p \in KnowledgePersonas |-> [ix \in {"static", "learned"} |-> {}]]
EmptyDataDir == [marker |-> "none", index |-> EmptyIndexes]

NoCall == [op |-> "none", characterId |-> "none", indexType |-> "none",
           sourceUri |-> "none", before |-> 0, returned |-> 0]
NoStats == [static |-> [count |-> 0, sources |-> {}],
            learned |-> [count |-> 0, sources |-> {}]]

IdleBoot ==
  [ pc |-> "off", run |-> 0, model |-> "none",
    i |-> 1,               \* loadStaticKnowledge: position in CHARACTER_KNOWLEDGE
    nextId |-> 1,          \* crypto.randomUUID: ids are never handed out twice
    changed |-> FALSE,     \* what ensureEmbeddingConsistency returned
    calls |-> 0,           \* engine calls made after the startup
    call |-> NoCall,       \* the last engine call after the startup
    prev |-> NoCall,       \* the call before it
    stats |-> NoStats ]    \* what the last getStats returned

\* VectraAdapter.count, listSources, deleteBySource, addChunks
count(items) == Cardinality(items)
listSources(items) == {it.sourceUri : it \in {x \in items : x.sourceUri # ""}}
deleteBySourceMutant(items, sourceUri) == {it \in items : it.sourceUri = sourceUri}
deleteBySource(items, sourceUri) == {it \in items : it.sourceUri # sourceUri}
addChunks(items, chunks) == items \cup chunks

\* RAGEngine.getStats(characterId)
getStats(dir, characterId) ==
  [ static |-> [count |-> count(dir.index[characterId]["static"]),
                sources |-> listSources(dir.index[characterId]["static"])],
    learned |-> [count |-> count(dir.index[characterId]["learned"]),
                 sources |-> listSources(dir.index[characterId]["learned"])] ]

\* RAGEngine.indexChunks(characterId, rawChunks, indexType) for n raw chunks
\* of one sourceUri: every chunk gets a fresh id.
indexChunks(dir, characterId, indexType, sourceUri, n, nextId) ==
  IF n = 0 THEN dir
  ELSE [dir EXCEPT !.index[characterId][indexType] =
          addChunks(@, {[id |-> nextId + k, sourceUri |-> sourceUri] : k \in 0..(n - 1)})]

\* RAGEngine.deleteSource(characterId, sourceUri, indexType)
deleteSourceMutant(dir, characterId, sourceUri, indexType) ==
  [dir EXCEPT !.index[characterId] =
     [ix \in DOMAIN @ |-> deleteBySource(@[ix], sourceUri)]]

deleteSource(dir, characterId, sourceUri, indexType) ==
  [dir EXCEPT !.index[characterId][indexType] = deleteBySource(@, sourceUri)]

\* clearAllIndexes: every directory of dataDir is removed; when readdir or
\* an rm rejects, the personas in kept still have their folders.
clearAllIndexes(dir, kept) ==
  [dir EXCEPT !.index = [p \in KnowledgePersonas |->
                           IF p \in kept THEN dir.index[p] ELSE EmptyIndexes[p]]]

\* loadSingleFile: sourceUri = `knowledge://${characterId}/${relativePath}`
KnowledgeUri(characterId, file) == <<"knowledge", characterId, file.name>>
UploadUri == <<"upload", "notes.md">>

kbOther == <<toolVars, chatVars, store, chunkCache, ops, ragLog, pipeline>>

\* app.whenReady: a start of the application on the persisted dataDir, with
\* the embedding adapter the API keys select.
AppStart(model) ==
  /\ boot.pc \in {"off", "ready"} /\ boot.run < MaxRuns
  /\ boot' = [IdleBoot EXCEPT !.pc = "marker", !.run = boot.run + 1,
                              !.model = model, !.nextId = boot.nextId]
  /\ UNCHANGED <<dataDir, kbOther>>

\* ensureEmbeddingConsistency.  kept = {} when clearAllIndexes resolves; a
\* rejection is swallowed by the catch that also handles the missing marker.
ensureEmbeddingConsistency(kept) ==
  /\ boot.pc = "marker"
  /\ IF dataDir.marker = boot.model
       THEN /\ kept = {}
            /\ boot' = [boot EXCEPT !.pc = "load", !.i = 1, !.changed = FALSE]
            /\ UNCHANGED dataDir
       ELSE /\ dataDir.marker = "none" => kept = {}
            /\ boot' = [boot EXCEPT !.pc = "load", !.i = 1, !.changed = TRUE]
            /\ dataDir' = [(IF dataDir.marker = "none" THEN dataDir
                            ELSE clearAllIndexes(dataDir, kept))
                           EXCEPT !.marker = boot.model]
  /\ UNCHANGED kbOther

\* loadDirectoryRecursive: indexChunks for every file whose load is
\* fulfilled, in the order of the files.
RECURSIVE LoadFiles(_, _, _, _, _)
LoadFiles(dir, characterId, files, rejected, nextId) ==
  IF files = <<>> THEN [dir |-> dir, nextId |-> nextId]
  ELSE IF Head(files).name \in rejected
    THEN LoadFiles(dir, characterId, Tail(files), rejected, nextId)
  ELSE LoadFiles(indexChunks(dir, characterId, "static",
                             KnowledgeUri(characterId, Head(files)),
                             Head(files).chunks, nextId),
                 characterId, Tail(files), rejected,
                 nextId + Head(files).chunks)

\* loadStaticKnowledge, one persona of its loop: getStats (which may
\* reject), fs.access, loadDirectoryRecursive.
SkipsLoaded(statsRejects, stats) == ~statsRejects /\ stats.static.count > 0

loadStaticKnowledge(statsRejects, rejected) ==
  /\ boot.pc = "load"
  /\ LET characterId == CHARACTER_KNOWLEDGE[boot.i]
         after == IF boot.i = Len(CHARACTER_KNOWLEDGE)
                    THEN [boot EXCEPT !.pc = "ready"]
                    ELSE [boot EXCEPT !.i = boot.i + 1]
         loaded == LoadFiles(dataDir, characterId, KnowledgeFiles[characterId],
                             rejected, boot.nextId)
     IN IF SkipsLoaded(statsRejects, getStats(dataDir, characterId))
             \/ ~HasKnowledgeDir(characterId)
          THEN /\ rejected = {}
               /\ boot' = after
               /\ UNCHANGED dataDir
          ELSE /\ rejected \subseteq
                    {KnowledgeFiles[characterId][f].name :
                       f \in DOMAIN KnowledgeFiles[characterId]}
               /\ boot' = [after EXCEPT !.nextId = loaded.nextId]
               /\ dataDir' = loaded.dir
  /\ UNCHANGED kbOther

InitBoot ==
  /\ dataDir = EmptyDataDir
  /\ boot = IdleBoot

NextBoot ==
  \/ \E model \in EmbeddingModels : AppStart(model)
  \/ \E kept \in SUBSET KnowledgePersonas : ensureEmbeddingConsistency(kept)
  \/ \E statsRejects \in BOOLEAN, rejected \in SUBSET {"guide.md", "faq.md"} :
       loadStaticKnowledge(statsRejects, rejected)

(***************************************************************************)
(* Engine calls after the startup, each awaited before the next is made.   *)
(***************************************************************************)
CallPersonas == {"pig"}
CallUris == {UploadUri, KnowledgeUri("pig", KnowledgeFiles["pig"][1])}

Called(c) == [boot EXCEPT !.calls = boot.calls + 1, !.prev = boot.call, !.call = c]

IndexChunksCall(characterId, indexType, sourceUri, n) ==
  /\ boot.pc = "ready" /\ boot.calls < MaxEngineCalls
  /\ dataDir' = indexChunks(dataDir, characterId, indexType, sourceUri, n, boot.nextId)
  /\ boot' = [Called([op |-> "indexChunks", characterId |-> characterId,
                      indexType |-> indexType, sourceUri |-> sourceUri,
                      before |-> count(dataDir.index[characterId][indexType]),
                      returned |-> n])
              EXCEPT !.nextId = boot.nextId + n]
  /\ UNCHANGED kbOther

DeleteSourceCall(characterId, sourceUri, indexType) ==
  /\ boot.pc = "ready" /\ boot.calls < MaxEngineCalls
  /\ dataDir' = deleteSource(dataDir, characterId, sourceUri, indexType)
  /\ boot' = Called([op |-> "deleteSource", characterId |-> characterId,
                     indexType |-> indexType, sourceUri |-> sourceUri,
                     before |-> count(dataDir.index[characterId][indexType]),
                     returned |-> 0])
  /\ UNCHANGED kbOther

GetStatsCall(characterId) ==
  /\ boot.pc = "ready" /\ boot.calls < MaxEngineCalls
  /\ boot' = [Called([NoCall EXCEPT !.op = "getStats", !.characterId = characterId])
              EXCEPT !.stats = getStats(dataDir, characterId)]
  /\ UNCHANGED <<dataDir, kbOther>>

\* The dataDir after a first start that loaded every knowledge file.
RECURSIVE LoadedFrom(_, _, _)
LoadedFrom(dir, i, nextId) ==
  IF i > Len(CHARACTER_KNOWLEDGE) THEN [dir |-> dir, nextId |-> nextId]
  ELSE LET loaded == LoadFiles(dir, CHARACTER_KNOWLEDGE[i],
                               KnowledgeFiles[CHARACTER_KNOWLEDGE[i]], {}, nextId)
       IN LoadedFrom(loaded.dir, i + 1, loaded.nextId)

FirstStart(model) == LoadedFrom([EmptyDataDir EXCEPT !.marker = model], 1, 1)

InitEngine ==
  \E model \in EmbeddingModels :
    /\ dataDir = FirstStart(model).dir
    /\ boot = [IdleBoot EXCEPT !.pc = "ready", !.run = 1, !.model = model,
                               !.changed = TRUE, !.nextId = FirstStart(model).nextId]

NextEngine ==
  \/ \E c \in CallPersonas, ix \in {"static", "learned"}, u \in CallUris,
        n \in 0..MaxRawChunks : IndexChunksCall(c, ix, u, n)
  \/ \E c \in CallPersonas, ix \in {"static", "learned"}, u \in CallUris :
       DeleteSourceCall(c, u, ix)
  \/ \E c \in CallPersonas : GetStatsCall(c)

(***************************************************************************)
(* RAGEngine: the vector stores of a persona, the chunk cache of the       *)
(* keyword search, and the calls in flight.  A call is cut at its awaits.  *)
(***************************************************************************)
MaxRagOps == 3           \* RAGEngine calls modelled
MAX_CACHE_ENTRIES == 20

RagOps == 1..MaxRagOps
Personas == {"mina"}
IndexTypes == {"static", "learned"}

CacheKey(characterId) == <<characterId, "all">>

IdleOp ==
  [ kind |-> "none", pc |-> "idle", characterId |-> "none", indexType |-> "none",
    chunk |-> 0,            \* indexChunks: the id of the chunk it adds
    deleted |-> {},         \* deleteSource: the chunks its store call removed
    chunks |-> {},          \* getAllChunks: the local list being loaded
    hit |-> FALSE,          \* getAllChunks found the key in the cache
    candidates |-> {},      \* search: allChunks handed to keywordSearch
    mustHave |-> {},        \* chunks committed when the search started
    mustNot |-> {} ]        \* chunks removed when the search started

InitRag ==
  /\ store = [c \in Personas |-> [ix \in IndexTypes |-> {}]]
  /\ chunkCache = <<>>
  /\ ops = [o \in RagOps |-> IdleOp]
  /\ ragLog = [next |-> 1, committed |-> {}, removed |-> {}, gone |-> {}]

\* No search pipeline, no startup: the state of the engine elsewhere.
InitKb ==
  /\ pipeline = IdlePipeline
  /\ dataDir = EmptyDataDir
  /\ boot = IdleBoot

CacheHas(cache, key) == \E i \in DOMAIN cache : cache[i].key = key
CacheGet(cache, key) == (CHOOSE i \in DOMAIN cache : cache[i].key = key)
CacheDelete(cache, key) == SelectSeq(cache, LAMBDA e : e.key # key)

\* Map.set: a present key keeps its place, a new key goes last.
CacheSet(cache, key, chunks) ==
  IF CacheHas(cache, key)
    THEN [cache EXCEPT ![CacheGet(cache, key)].chunks = chunks]
    ELSE Append(cache, [key |-> key, chunks |-> chunks])

\* invalidateChunkCache(characterId, indexType)
invalidateChunkCache(cache, characterId) == CacheDelete(cache, CacheKey(characterId))

Started(o) == ops[o].pc = "idle" /\ \A n \in RagOps : n < o => ops[n].pc # "idle"

\* search(request) up to its first await (embedding.embed)
SearchStart(o, c) ==
  /\ Started(o)
  /\ ops' = [ops EXCEPT ![o] = [IdleOp EXCEPT !.kind = "search", !.pc = "query",
                                  !.characterId = c,
                                  !.mustHave = ragLog.committed,
                                  !.mustNot = ragLog.removed]]
  /\ UNCHANGED <<store, chunkCache, ragLog, toolVars, chatVars, kbVars>>

\* The embedding and the two vector queries have settled; getAllChunks runs
\* up to its first await: a hit moves the entry last and returns its list.
SearchCacheLookup(o) ==
  /\ ops[o].kind = "search" /\ ops[o].pc = "query"
  /\ LET key == CacheKey(ops[o].characterId) IN
     IF CacheHas(chunkCache, key)
       THEN LET cached == chunkCache[CacheGet(chunkCache, key)].chunks IN
            /\ chunkCache' = Append(CacheDelete(chunkCache, key),
                                    [key |-> key, chunks |-> cached])
            /\ ops' = [ops EXCEPT ![o].pc = "done", ![o].hit = TRUE,
                                   ![o].candidates = cached]
       ELSE /\ ops' = [ops EXCEPT ![o].pc = "loadStatic"]
            /\ UNCHANGED chunkCache
  /\ UNCHANGED <<store, ragLog, toolVars, chatVars, kbVars>>

\* getAllChunks, cache miss: the static index has been read.
LoadStatic(o) ==
  /\ ops[o].pc = "loadStatic"
  /\ ops' = [ops EXCEPT ![o].pc = "loadLearned",
                         ![o].chunks = store[ops[o].characterId]["static"]]
  /\ UNCHANGED <<store, chunkCache, ragLog, toolVars, chatVars, kbVars>>

\* getAllChunks, cache miss: the learned index has been read; the oldest
\* entry is dropped when the cache is full, the list is stored and returned.
LoadLearned(o) ==
  /\ ops[o].pc = "loadLearned"
  /\ LET c == ops[o].characterId
         chunks == ops[o].chunks \cup store[c]["learned"]
         room == IF Len(chunkCache) >= MAX_CACHE_ENTRIES
                   THEN Tail(chunkCache) ELSE chunkCache
     IN /\ chunkCache' = CacheSet(room, CacheKey(c), chunks)
        /\ ops' = [ops EXCEPT ![o].pc = "done", ![o].chunks = chunks,
                               ![o].candidates = chunks]
  /\ UNCHANGED <<store, ragLog, toolVars, chatVars, kbVars>>

\* indexChunks(characterId, rawChunks, indexType) up to its first await
IndexStart(o, c, ix) ==
  /\ Started(o)
  /\ ops' = [ops EXCEPT ![o] = [IdleOp EXCEPT !.kind = "indexChunks",
                                  !.pc = "embed", !.characterId = c,
                                  !.indexType = ix, !.chunk = ragLog.next]]
  /\ ragLog' = [ragLog EXCEPT !.next = @ + 1]
  /\ UNCHANGED <<store, chunkCache, toolVars, chatVars, kbVars>>

\* store.addChunks wrote the chunks.
IndexWrite(o) ==
  /\ ops[o].kind = "indexChunks" /\ ops[o].pc = "embed"
  /\ store' = [store EXCEPT ![ops[o].characterId][ops[o].indexType] =
                               @ \cup {ops[o].chunk}]
  /\ ops' = [ops EXCEPT ![o].pc = "written"]
  /\ UNCHANGED <<chunkCache, ragLog, toolVars, chatVars, kbVars>>

\* indexChunks after await store.addChunks: invalidate and return.
IndexDone(o) ==
  /\ ops[o].kind = "indexChunks" /\ ops[o].pc = "written"
  /\ chunkCache' = invalidateChunkCache(chunkCache, ops[o].characterId)
  /\ ops' = [ops EXCEPT ![o].pc = "done"]
  /\ ragLog' = [ragLog EXCEPT !.committed = @ \cup {ops[o].chunk}]
  /\ UNCHANGED <<store, toolVars, chatVars, kbVars>>

\* deleteSource(characterId, sourceUri, indexType) up to its first await
DeleteStart(o, c, ix) ==
  /\ Started(o)
  /\ ops' = [ops EXCEPT ![o] = [IdleOp EXCEPT !.kind = "deleteSource",
                                  !.pc = "deleting", !.characterId = c,
                                  !.indexType = ix]]
  /\ UNCHANGED <<store, chunkCache, ragLog, toolVars, chatVars, kbVars>>

\* store.deleteBySource removed the chunks of the source (every chunk of the
\* index comes from the one source).
DeleteWrite(o) ==
  /\ ops[o].kind = "deleteSource" /\ ops[o].pc = "deleting"
  /\ LET old == store[ops[o].characterId][ops[o].indexType] IN
     /\ store' = [store EXCEPT ![ops[o].characterId][ops[o].indexType] = {}]
     /\ ops' = [ops EXCEPT ![o].pc = "deleted", ![o].deleted = old]
     /\ ragLog' = [ragLog EXCEPT !.gone = @ \cup old]
  /\ UNCHANGED <<chunkCache, toolVars, chatVars, kbVars>>

\* deleteSource after await store.deleteBySource: invalidate and return.
DeleteDone(o) ==
  /\ ops[o].kind = "deleteSource" /\ ops[o].pc = "deleted"
  /\ chunkCache' = invalidateChunkCache(chunkCache, ops[o].characterId)
  /\ ops' = [ops EXCEPT ![o].pc = "done"]
  /\ ragLog' = [ragLog EXCEPT !.removed = @ \cup ops[o].deleted]
  /\ UNCHANGED <<store, toolVars, chatVars, kbVars>>

InitTools ==
  /\ InitRag
  /\ InitKb
  /\ callCount = 0
  /\ lastExec = None
  /\ configured = {}
  /\ activeModel = [provider |-> "openai", id |-> "gpt-4o"]
  /\ provCtl = [p \in {"openai", "gemini"} |-> 0]
  /\ active = 0
  /\ turns = <<>>
  /\ history = <<>>
  /\ usage = <<>>
  /\ lastSent = [kind |-> "none", turn |-> 0, seq |-> 0]

RegistryExecute ==
  \E call \in ValidToolCalls, exec \in ExecutorOutcomes :
    LET res == execute(call, callCount, RegisteredTools, exec) IN
    /\ callCount' = res.count
    /\ lastExec' = [kind |-> "exec", call |-> call, before |-> callCount,
                    res |-> res]
    /\ UNCHANGED <<chatVars, ragVars>>

RegistryReset ==
  /\ callCount' = 0
  /\ UNCHANGED <<lastExec, chatVars, ragVars>>

NextTools == RegistryExecute \/ RegistryReset

SpecTools == InitTools /\ [][NextTools]_vars

(***************************************************************************)
(* Properties of the registry and the guardrails.                          *)
(***************************************************************************)
\* A resolved absolute path lies in (or is) a blocked directory.
UnderBlocked(resolved) ==
  \E b \in blockedPaths :
    Len(resolved) >= Len(b) /\ SubSeq(resolved, 1, Len(b)) = b

ArgUnderBlocked(v) ==
  v.t = "string" /\ Truthy(v) /\ UnderBlocked(PathResolve(v))

Rejected(r) == r.outcome = "result" /\ ~r.success /\ ~r.ran /\ r.error # ""

\* C4: a tool call whose path argument resolves under a blocked directory is
\* rejected before the executor runs and leaves the session call counter
\* unchanged; the counter grows (by one) only for a call that passed
\* validation.
C4_BlockedPathRejected ==
  lastExec.kind = "exec" =>
    /\ ArgUnderBlocked(lastExec.call.args.path) =>
         Rejected(lastExec.res) /\ lastExec.res.count = lastExec.before
    /\ lastExec.res.count # lastExec.before =>
         lastExec.res.count = lastExec.before + 1 /\ lastExec.res.ran

C4_Witness ==
  /\ lastExec.kind = "exec"
  /\ lastExec.call.name \in RegisteredTools
  /\ lastExec.call.args.path = EtcDotDot
  /\ lastExec.before > 0
  /\ lastExec.before < maxToolCallsPerSession
  /\ lastExec.res.error = "blockedPath"
  /\ callCount = lastExec.before

\* C5: validation rejects a call if any one of its path-like arguments
\* resolves under a blocked directory.
PathLikeKeys == ArgKeys \ {"content"}

C5_AnyBlockedPathArgRejected ==
  (/\ lastExec.kind = "exec"
   /\ \E k \in PathLikeKeys : ArgUnderBlocked(lastExec.call.args[k]))
  => Rejected(lastExec.res)

\* C6: the session call counter never exceeds the ceiling, and a call made
\* when the counter has reached the ceiling is rejected without running its
\* executor.
C6_CallCeiling ==
  /\ callCount <= maxToolCallsPerSession
  /\ (lastExec.kind = "exec" /\ lastExec.before >= maxToolCallsPerSession) =>
       Rejected(lastExec.res) /\ lastExec.res.count = lastExec.before

C6_Witness ==
  /\ lastExec.kind = "exec"
  /\ lastExec.before = maxToolCallsPerSession
  /\ callCount = maxToolCallsPerSession
  /\ lastExec.call.name = "readFile"
  /\ lastExec.call.args.path = OkAbs
  /\ lastExec.res.error = "callLimit"

\* C10: ToolRegistry.execute never throws or rejects.
C10_ExecuteNeverRejects ==
  lastExec.kind = "exec" => lastExec.res.outcome = "result"

(***************************************************************************)
(* The orchestrator and the chat:send handler.                             *)
(***************************************************************************)
MaxTurns == 2            \* chat:send invocations modelled
MaxCallsPerRound == 2    \* tool calls a model emits in one response
MaxTextChunks == 1       \* text chunks of one response before its last chunk
MaxChatRounds == 1       \* tool rounds of a turn when turns overlap

MAX_TOOL_ROUNDS == 5
MAX_CONTEXT_MESSAGES == 30
MAX_HISTORY == 50
RecentHistory == 20

Turns == 1..MaxTurns
Providers == {"openai", "gemini"}

ProviderModels ==
  [ openai |-> {"gpt-4o", "gpt-4o-mini"},
    gemini |-> {"gemini-2.0-flash", "gemini-2.0-pro"} ]

FALLBACK_MODELS ==
  [ openai |-> [provider |-> "gemini", model |-> "gemini-2.0-flash"],
    gemini |-> [provider |-> "openai", model |-> "gpt-4o-mini"] ]

\* KEYWORD_RULES: the first matching rule decides the intent; "none" is a
\* message no rule matches.
KEYWORD_RULES ==
  [ file_operation      |-> [needsKnowledge |-> FALSE, needsTool |-> TRUE],
    code_review         |-> [needsKnowledge |-> TRUE,  needsTool |-> FALSE],
    design_qa           |-> [needsKnowledge |-> TRUE,  needsTool |-> FALSE],
    functional_qa       |-> [needsKnowledge |-> TRUE,  needsTool |-> FALSE],
    code_generation     |-> [needsKnowledge |-> TRUE,  needsTool |-> TRUE],
    translation         |-> [needsKnowledge |-> TRUE,  needsTool |-> FALSE],
    document_generation |-> [needsKnowledge |-> TRUE,  needsTool |-> TRUE],
    knowledge_query     |-> [needsKnowledge |-> TRUE,  needsTool |-> FALSE] ]

\* classifyIntent(message, characterId, hasImage): rule is the type of the
\* first rule the message matches, specialty whether the persona has entries
\* in CHARACTER_INTENTS.
classifyIntent(rule, specialty) ==
  IF rule \in DOMAIN KEYWORD_RULES
    THEN [type |-> rule, needsKnowledge |-> KEYWORD_RULES[rule].needsKnowledge,
          needsTool |-> KEYWORD_RULES[rule].needsTool]
  ELSE IF specialty
    THEN [type |-> "knowledge_query", needsKnowledge |-> TRUE, needsTool |-> FALSE]
  ELSE [type |-> "general_chat", needsKnowledge |-> FALSE, needsTool |-> FALSE]

\* selectModel(intent, availableProviders)
selectModel(intent, available) ==
  IF "gemini" \notin available /\ "openai" \notin available
    THEN [provider |-> "gemini", model |-> "gemini-2.0-flash"]
  ELSE IF "gemini" \in available
    THEN [provider |-> "gemini", model |-> "gemini-2.0-flash"]
  ELSE IF intent.type \in {"code_review", "code_generation", "design_qa", "functional_qa"}
    THEN [provider |-> "openai", model |-> "gpt-4o"]
  ELSE [provider |-> "openai", model |-> "gpt-4o-mini"]

\* Errors.  frags: the lower-cased fragments the message contains.
Err429 == [isError |-> TRUE, frags |-> {"429", "too many requests"}]
ErrAuth == [isError |-> TRUE, frags |-> {"401", "api key"}]
ErrNetwork == [isError |-> TRUE, frags |-> {"fetch failed"}]
ErrServer == [isError |-> TRUE, frags |-> {"500"}]
ErrAborted == [isError |-> TRUE, frags |-> {"request was aborted"}]
ErrType == [isError |-> TRUE, frags |-> {"argument must be of type string"}]
NoError == [isError |-> FALSE, frags |-> {}]

QuotaAuthFragmentsMutant ==
  { "quota", "rate_limit", "rate limit", "insufficient", "billing", "exceeded",
    "401", "403", "api key", "authentication", "permission",
    "resource_exhausted", "resource has been exhausted" }
QuotaAuthFragments ==
  { "quota", "rate_limit", "rate limit", "insufficient", "billing", "exceeded",
    "429", "401", "403", "api key", "authentication", "permission",
    "resource_exhausted", "resource has been exhausted" }

isQuotaOrAuthError(e) == e.isError /\ e.frags \cap QuotaAuthFragments # {}

classifyError(e) ==
  IF ~e.isError THEN "default"
  ELSE IF e.frags \cap { "quota", "insufficient", "billing", "exceeded",
                         "rate_limit", "rate limit", "429", "resource_exhausted",
                         "resource has been exhausted", "too many requests" } # {}
    THEN "quota"
  ELSE IF e.frags \cap { "network", "econnrefused", "enotfound", "timeout",
                         "fetch failed", "econnreset", "socket hang up", "dns" } # {}
    THEN "network"
  ELSE "default"

\* Messages of the list sent to a model.  turn: the turn whose utterance or
\* reply it is (0: before the first turn); round/calls: the tool round of an
\* assistant tool-call message or of a tool result and its call ids.
Msg(role, turn) == [role |-> role, turn |-> turn, round |-> 0, ids |-> <<>>]
ToolCallMsg(turn, round, ids) ==
  [role |-> "assistant", turn |-> turn, round |-> round, ids |-> ids]
ToolResultMsg(turn, round, id) ==
  [role |-> "tool", turn |-> turn, round |-> round, ids |-> <<id>>]

LastN(seq, n) ==
  IF Len(seq) <= n THEN seq ELSE SubSeq(seq, Len(seq) - n + 1, Len(seq))

\* buildMessages: system prompt, history.slice(-20), the user message.
buildMessages(hist, t) ==
  <<Msg("system", 0)>> \o LastN(hist, RecentHistory) \o <<Msg("user", t)>>

\* Array.prototype.slice(-n): the last n entries; slice(-0) is the whole
\* array, and a positive start drops that many entries.
SliceFromEnd(seq, n) ==
  IF n > 0 THEN LastN(seq, n)
  ELSE IF n = 0 THEN seq
  ELSE SubSeq(seq, 1 - n, Len(seq))

\* The compaction at the end of a tool round.
CompactMutant(msgs) ==
  IF Len(msgs) > MAX_CONTEXT_MESSAGES
    THEN LET system == SelectSeq(msgs, LAMBDA m : m.role = "system")
         IN system \o SubSeq(msgs, 1, MAX_CONTEXT_MESSAGES - Len(system))
    ELSE msgs
Compact(msgs) ==
  IF Len(msgs) > MAX_CONTEXT_MESSAGES
    THEN LET system == SelectSeq(msgs, LAMBDA m : m.role = "system")
         IN system \o SliceFromEnd(msgs, MAX_CONTEXT_MESSAGES - Len(system))
    ELSE msgs

\* trimHistory on the persona's entry.
trimHistory(hist) == LastN(hist, MAX_HISTORY)

(***************************************************************************)
(* State of one chat:send invocation (a turn).                             *)
(*   pc: idle (not sent), rag (awaiting ragEngine.search), stream          *)
(*   (awaiting the provider stream), toolrun (awaiting a tool executor),   *)
(*   done (the handler returned).                                          *)
(***************************************************************************)
NoSelection == [provider |-> "none", model |-> "none"]
NoneSent == [primary |-> FALSE, fallback |-> FALSE, done |-> 0, error |-> 0]

\* The part of a ToolResult the loop reads, and whether the executor is
\* still running when execute returns.
NoResult == [success |-> FALSE, error |-> "none", running |-> FALSE]
ResultOf(r) == [success |-> r.success, error |-> r.error, running |-> r.running]

IdleTurn ==
  [ pc |-> "idle", result |-> "none",
    aborted |-> FALSE,          \* signal.aborted of the handler's controller
    detached |-> FALSE,         \* the handler's history array left the map
    hFullText |-> FALSE,        \* the handler's fullText is non-empty
    sent |-> NoneSent,          \* fragments sent to the renderer, by attempt and kind
    errorType |-> "none",       \* classifyError of the error shown
    intent |-> classifyIntent("none", FALSE),  \* read until toolDefs is built
    ragContext |-> FALSE,       \* retrieved context is non-empty
    sel |-> NoSelection,        \* modelSelection
    tools |-> FALSE,            \* toolDefs is defined
    base |-> <<>>,              \* messages (buildMessages)
    attempt |-> "none",         \* primary | fallback
    provider |-> "none", model |-> "none",
    round |-> 0, final |-> FALSE,
    msgs |-> <<>>,              \* currentMessages
    withTools |-> FALSE,        \* the stream in flight was given tools
    pending |-> <<>>,           \* pendingToolCalls
    toolIdx |-> 0,              \* index of the tool call being executed
    countBefore |-> 0,          \* the call counter when that call was validated
    textChunks |-> 0, sawDone |-> FALSE, lastUsage |-> FALSE,
    streamAborted |-> FALSE,    \* the provider aborted this stream
    \* history of the run, read by the properties only
    primaryErr |-> NoError, loopRuns |-> 0, fallbackRuns |-> 0,
    callsWithTools |-> 0, callsPlain |-> 0, everyCallTools |-> TRUE,
    finalText |-> "none",       \* none | produced | sent: text of the last call
    lastResult |-> NoResult,    \* result of the last toolRegistry.execute
    discarded |-> FALSE,        \* an executor settled after the abort
    compaction |-> [from |-> <<>>, to |-> <<>>],   \* the last compaction
    ragFailed |-> FALSE,        \* ragEngine.search threw
    caught |-> NoError ]        \* the error the handler's catch block received

Cur ==
  [ callCount |-> callCount, provCtl |-> provCtl,
    active |-> active, turns |-> turns, history |-> history, usage |-> usage,
    lastSent |-> lastSent ]

Apply(S) ==
  \E V \in {S} :
    /\ callCount' = V.callCount
    /\ provCtl' = V.provCtl
    /\ active' = V.active
    /\ turns' = V.turns
    /\ history' = V.history
    /\ usage' = V.usage
    /\ lastSent' = V.lastSent

\* F applied to the value of v.
Then(v, F(_)) == CHOOSE r \in {F(x) : x \in {v}} : TRUE

\* finally { if (activeAbortController?.signal === signal) ... = null }
Finally(S, t) ==
  [S EXCEPT !.active = IF @ = t THEN 0 ELSE @,
            !.turns[t].pc = "done",
            !.turns[t].base = <<>>, !.turns[t].msgs = <<>>,
            !.turns[t].pending = <<>>, !.turns[t].toolIdx = 0,
            !.turns[t].countBefore = 0, !.turns[t].textChunks = 0,
            !.turns[t].sawDone = FALSE, !.turns[t].lastUsage = FALSE,
            !.turns[t].withTools = FALSE, !.turns[t].streamAborted = FALSE,
            !.turns[t].hFullText = FALSE, !.turns[t].detached = FALSE]

\* The handler leaves its for-await loop by break: the generators are
\* returned, the code after the loop sees signal.aborted.
Break(S, t) == Finally([S EXCEPT !.turns[t].result = "cancelled"], t)

\* history.push(msg) on the handler's array, then trimHistory: a push on an
\* array that is no longer the map's entry does not reach the map; a trim
\* replaces the map's entry by a copy, detaching every holder of the old one.
PushHistory(S, t, msg) ==
  LET pushed == IF S.turns[t].detached THEN S.history ELSE Append(S.history, msg)
      over == Len(pushed) > MAX_HISTORY
  IN [S EXCEPT !.history = trimHistory(pushed),
               !.turns = [u \in Turns |->
                            IF over /\ S.turns[u].pc # "idle"
                              THEN [S.turns[u] EXCEPT !.detached = TRUE]
                              ELSE S.turns[u]]]

\* The code after the handler's loop when the generator finished.
CompleteMutant(S, t) ==
  Finally(PushHistory([S EXCEPT !.turns[t].result = "completed"], t,
                      Msg("assistant", t)), t)
Complete(S, t) ==
  IF S.turns[t].aborted
    THEN Break(S, t)
    ELSE Finally(PushHistory([S EXCEPT !.turns[t].result = "completed"], t,
                             Msg("assistant", t)), t)

\* The handler's catch block.
HandlerCatchMutant(S, t, e) ==
  Finally([S EXCEPT !.turns[t].result = IF S.turns[t].aborted THEN "cancelled"
                                        ELSE "error",
                    !.turns[t].caught = e], t)

HandlerCatch(S, t, e) ==
  IF S.turns[t].aborted
    THEN Finally([S EXCEPT !.turns[t].result = "cancelled",
                           !.turns[t].caught = e], t)
    ELSE Finally([S EXCEPT !.turns[t].result = "error",
                           !.turns[t].caught = e,
                           !.turns[t].errorType = classifyError(e),
                           !.turns[t].sent.error = @ + 1,
                           !.lastSent = [kind |-> "error", turn |-> t,
                                         seq |-> 1 - S.lastSent.seq]], t)

\* One chunk reaches the handler's loop body.  c: which of toolCall, text,
\* done and usage the chunk carries.
Chunk(tool, text, done, usg) == [tool |-> tool, text |-> text, done |-> done, usage |-> usg]

\* router.getActiveModel() at the time the done chunk is handled
UsageAttribution(S, t) ==
  [turn |-> t, attempt |-> S.turns[t].attempt,
   provider |-> activeModel.provider, model |-> activeModel.id]

HandlerBody(S, t, c) ==
  LET tr == S.turns[t]
      n == (IF c.tool THEN 1 ELSE 0) + (IF c.text THEN 1 ELSE 0)
             + (IF c.done THEN 1 ELSE 0)
  IN [S EXCEPT
        !.turns[t].sent =
           [primary |-> @.primary \/ (n > 0 /\ tr.attempt = "primary"),
            fallback |-> @.fallback \/ (n > 0 /\ tr.attempt = "fallback"),
            done |-> @.done + (IF c.done THEN 1 ELSE 0),
            error |-> @.error],
        !.turns[t].hFullText = @ \/ c.text,
        !.usage = IF c.done /\ c.usage THEN Append(@, UsageAttribution(S, t)) ELSE @,
        !.lastSent = IF n > 0
                       THEN [kind |-> IF c.done THEN "done"
                                      ELSE IF c.text THEN "text" ELSE "tool",
                             turn |-> t, seq |-> 1 - S.lastSent.seq]
                       ELSE @]

\* A chunk yielded by the orchestrator: the handler breaks if its signal is
\* aborted, and handles the chunk otherwise.
YieldMutant(S, t, c) == HandlerBody(S, t, c)
Yield(S, t, c) ==
  IF S.turns[t].aborted THEN Break(S, t) ELSE HandlerBody(S, t, c)

Alive(S, t) == S.turns[t].pc # "done"

(***************************************************************************)
(* Orchestrator.chatWithToolLoop and Orchestrator.process.                 *)
(***************************************************************************)
\* router.chatWith(provider, model, messages, tools) up to its first await.
\* An unregistered provider yields one text chunk with done=true and the
\* stream is over; a registered provider's chat() aborts the controller the
\* provider holds and installs its own.
MissingProviderChunk == Chunk(FALSE, TRUE, TRUE, FALSE)

OpenStream(S, t, withTools) ==
  LET p == S.turns[t].provider
      u == S.provCtl[p]
      S1 == IF u # 0 /\ u # t /\ S.turns[u].pc = "stream"
               /\ S.turns[u].provider = p
              THEN [S EXCEPT !.turns[u].streamAborted = TRUE]
              ELSE S
  IN [S1 EXCEPT !.provCtl[p] = t,
                !.turns[t].pc = "stream",
                !.turns[t].withTools = withTools,
                !.turns[t].pending = <<>>,
                !.turns[t].toolIdx = 0,
                !.turns[t].textChunks = 0,
                !.turns[t].sawDone = FALSE,
                !.turns[t].lastUsage = FALSE,
                !.turns[t].streamAborted = FALSE]

\* The loop leaves chatWithToolLoop and process; the handler completes.
LoopReturns(S, t) == Complete(S, t)

\* The stream of an unregistered provider inside the tool loop (round
\* below MAX_TOOL_ROUNDS) or as the last call.
MissingProviderMutant(S, t, final) == LoopReturns(S, t)

MissingProvider(S, t, final) ==
  LET S1 == Yield(S, t, MissingProviderChunk)
  IN IF Alive(S1, t) THEN LoopReturns(S1, t) ELSE S1

\* One model call of the loop: with the tool definitions while round is
\* below MAX_TOOL_ROUNDS, without them as the last call.
ModelCall(S, t, final) ==
  LET withTools == ~final /\ S.turns[t].tools
      S1 == [S EXCEPT !.turns[t].final = final,
                      !.turns[t].callsWithTools = @ + (IF withTools THEN 1 ELSE 0),
                      !.turns[t].callsPlain = @ + (IF withTools THEN 0 ELSE 1)]
  IN IF S.turns[t].provider \in configured
       THEN OpenStream(S1, t, withTools)
       ELSE MissingProvider(S1, t, final)

\* chatWithToolLoop(provider, model, messages, tools) up to its first await.
BeginLoop(S, t, sel, attempt) ==
  ModelCall([S EXCEPT !.turns[t].attempt = attempt,
                      !.turns[t].provider = sel.provider,
                      !.turns[t].model = sel.model,
                      !.turns[t].round = 0,
                      !.turns[t].msgs = S.turns[t].base,
                      !.turns[t].loopRuns = @ + 1,
                      !.turns[t].fallbackRuns = @ + (IF attempt = "fallback" THEN 1 ELSE 0),
                      !.turns[t].callsWithTools = 0,
                      !.turns[t].callsPlain = 0,
                      !.turns[t].everyCallTools = TRUE,
                      !.turns[t].finalText = "none"],
            t, FALSE)

\* An error thrown inside chatWithToolLoop: the catch block of process
\* starts the fallback loop or rethrows to the handler.
ThrowMutant(S, t, e) ==
  IF S.turns[t].attempt = "primary"
    THEN BeginLoop([S EXCEPT !.turns[t].primaryErr = e], t,
                   FALLBACK_MODELS[S.turns[t].sel.provider], "fallback")
    ELSE HandlerCatch(S, t, e)

Throw(S, t, e) ==
  LET tr == S.turns[t]
      fallback == FALLBACK_MODELS[tr.sel.provider]
  IN IF tr.attempt = "primary"
       THEN LET S1 == [S EXCEPT !.turns[t].primaryErr = e] IN
            IF isQuotaOrAuthError(e) /\ fallback.provider \in configured
              THEN BeginLoop(S1, t, fallback, "fallback")
              ELSE HandlerCatch(S1, t, e)
       ELSE HandlerCatch(S, t, e)

\* process after the retrieval: selectModel, buildMessages, toolDefs, and the
\* tool loop with the selected model.
StartPrimary(S, t, ragContext) ==
  LET tr == S.turns[t]
      sel == selectModel(tr.intent, configured)
  IN BeginLoop([S EXCEPT !.turns[t].ragContext = ragContext,
                         !.turns[t].sel = sel,
                         !.turns[t].tools = tr.intent.needsTool,
                         !.turns[t].intent = IdleTurn.intent],
               t, sel, "primary")

\* The end of a tool round: round++, compaction, and the next model call (the
\* last one, without tools, when round reached MAX_TOOL_ROUNDS; the while
\* loop ends after it).
IsLastRoundMutant(round) == round = MAX_TOOL_ROUNDS + 1
IsLastRound(round) == round = MAX_TOOL_ROUNDS

EndRound(S, t) ==
  LET tr == S.turns[t]
      round == tr.round + 1
      S1 == [S EXCEPT !.turns[t].round = round,
                      !.turns[t].msgs = Compact(tr.msgs),
                      !.turns[t].compaction =
                         IF Len(tr.msgs) > MAX_CONTEXT_MESSAGES
                           THEN [from |-> tr.msgs, to |-> Compact(tr.msgs)]
                           ELSE @]
  IN Then(S1, LAMBDA V :
       IF IsLastRound(round) THEN ModelCall(V, t, TRUE)
       ELSE IF round < MAX_TOOL_ROUNDS THEN ModelCall(V, t, FALSE)
       ELSE LoopReturns(V, t))

\* The tool calls of a round, from the i-th on: execute runs up to the await
\* of the executor.  An unknown tool and a guardrail denial resolve at once
\* and the loop appends the result and goes on; a validation that throws
\* rejects the promise and the error leaves the loop.
ExecFromMutant(S, t, i) == EndRound(S, t)
RECURSIVE ExecFrom(_, _, _)
ExecFrom(S, t, i) ==
  LET tr == S.turns[t] IN
  IF i > Len(tr.pending) THEN EndRound(S, t)
  ELSE LET call == tr.pending[i]
           r == execute(call, S.callCount, RegisteredTools, "success")
           S1 == [S EXCEPT !.callCount = r.count, !.turns[t].toolIdx = i,
                           !.turns[t].countBefore = S.callCount]
       IN IF r.ran
            THEN [S1 EXCEPT !.turns[t].pc = "toolrun"]
          ELSE IF r.outcome = "rejected"
            THEN Throw(S1, t, ErrType)
          ELSE ExecFrom([S1 EXCEPT !.turns[t].msgs =
                           Append(@, ToolResultMsg(t, tr.round, call.id)),
                                   !.turns[t].lastResult = ResultOf(r)],
                        t, i + 1)

\* When the awaited executor settles (or its timeout fires): the result is
\* appended as a tool message and the remaining calls of the round follow.
ToolSettles(S, t, exec) ==
  LET tr == S.turns[t]
      call == tr.pending[tr.toolIdx]
      r == ExecuteAllowed(call, tr.countBefore + 1, exec)
      S1 == [S EXCEPT !.turns[t].msgs = Append(@, ToolResultMsg(t, tr.round, call.id)),
                      !.turns[t].discarded = @ \/ tr.aborted,
                      !.turns[t].lastResult = ResultOf(r)]
  IN Then(S1, LAMBDA V : ExecFrom(V, t, tr.toolIdx + 1))

(***************************************************************************)
(* The chat: one action per event of the main process.                     *)
(***************************************************************************)
Utterances == (DOMAIN KEYWORD_RULES) \cup {"none"}
ProviderErrors == {Err429, ErrAuth, ErrNetwork, ErrServer}

\* The tool calls a model may request: a readable file, a blocked path, a
\* path argument that is not a string.
ModelToolCalls ==
  [ ok      |-> [name |-> "readFile", args |-> Args1("path", OkAbs)],
    blocked |-> [name |-> "readFile", args |-> Args1("path", EtcAbs)],
    badtype |-> [name |-> "readFile", args |-> Args1("path", NumberVal)] ]

\* initLLMProviders: the providers with a key are registered, and the active
\* model is Gemini's when Gemini has a key.
InitialActiveModel(conf) ==
  IF "gemini" \in conf THEN [provider |-> "gemini", id |-> "gemini-2.0-flash"]
  ELSE [provider |-> "openai", id |-> "gpt-4o"]

InitChatWith(confs) ==
  /\ InitRag
  /\ InitKb
  /\ callCount = 0
  /\ lastExec = None
  /\ configured \in confs
  /\ activeModel = InitialActiveModel(configured)
  /\ provCtl = [p \in Providers |-> 0]
  /\ active = 0
  /\ turns = [t \in Turns |-> IdleTurn]
  /\ history = <<>>
  /\ usage = <<>>
  /\ lastSent = [kind |-> "none", turn |-> 0, seq |-> 0]

\* ipcMain.on('chat:send'): the handler up to its first await, which is in
\* process (the retrieval) or in the provider (the model call).
Send(t, rule, specialty) ==
  /\ turns[t].pc = "idle"
  /\ \A u \in Turns : u < t => turns[u].pc # "idle"
  /\ LET S0 == Cur
         S1 == IF S0.active # 0
                 THEN [S0 EXCEPT !.turns[S0.active].aborted = TRUE] ELSE S0
         intent == classifyIntent(rule, specialty)
         S2 == [S1 EXCEPT !.active = t, !.turns[t].pc = "rag",
                          !.turns[t].intent = intent]
         S3 == PushHistory(S2, t, Msg("user", t))
         S4 == [S3 EXCEPT !.turns[t].base =
                             buildMessages(Append(S0.history, Msg("user", t)), t),
                          !.callCount = 0]
     IN Apply(IF intent.needsKnowledge THEN S4 ELSE StartPrimary(S4, t, FALSE))
  /\ UNCHANGED <<lastExec, configured, activeModel, ragVars>>

\* ragEngine.search settles: with results, with none, or by throwing (the
\* catch leaves ragContext empty); process goes on to the model call.
RetrievalOutcomes == {"results", "empty", "throws"}

RetrievalSettlesMutant(S, t, outcome) ==
  IF outcome = "throws"
    THEN HandlerCatch([S EXCEPT !.turns[t].ragFailed = TRUE], t, ErrNetwork)
    ELSE StartPrimary(S, t, outcome = "results")

RetrievalSettles(S, t, outcome) ==
  StartPrimary([S EXCEPT !.turns[t].ragFailed = (outcome = "throws")], t,
               outcome = "results")

RagDone(t, outcome) ==
  /\ turns[t].pc = "rag"
  /\ Apply(RetrievalSettles(Cur, t, outcome))
  /\ UNCHANGED <<lastExec, configured, activeModel, ragVars>>


\* The id of the i-th tool call of a round.
CallId(i) == "call_" \o ToString(i)

\* The provider stream yields a tool-call chunk: inside the loop it is added
\* to pendingToolCalls and passed on.
ToolCallChunk(t, k) ==
  /\ turns[t].pc = "stream"
  /\ turns[t].withTools /\ ~turns[t].sawDone /\ ~turns[t].streamAborted
  /\ Len(turns[t].pending) < MaxCallsPerRound
  /\ LET call == [id |-> CallId(Len(turns[t].pending) + 1),
                  name |-> ModelToolCalls[k].name, args |-> ModelToolCalls[k].args]
         S1 == [Cur EXCEPT !.turns[t].pending = Append(@, call)]
     IN Apply(Yield(S1, t, Chunk(TRUE, FALSE, FALSE, FALSE)))
  /\ UNCHANGED <<lastExec, configured, activeModel, ragVars>>

\* if (pendingToolCalls.length === 0) yield chunk; the last call yields
\* every chunk.
PassesOn(final, pending) == final \/ pending = <<>>

\* The provider stream yields a chunk with text and done=false.
TextChunk(t) ==
  /\ turns[t].pc = "stream"
  /\ ~turns[t].sawDone /\ ~turns[t].streamAborted
  /\ turns[t].textChunks < MaxTextChunks
  /\ LET tr == turns[t]
         S1 == [Cur EXCEPT !.turns[t].textChunks = @ + 1,
                           !.turns[t].finalText =
                              IF tr.final /\ @ = "none" THEN "produced" ELSE @]
         S2 == IF PassesOn(tr.final, tr.pending)
                 THEN Yield(S1, t, Chunk(FALSE, TRUE, FALSE, FALSE)) ELSE S1
     IN Apply([S2 EXCEPT !.turns[t].finalText =
                 IF tr.final /\ S2.lastSent # S1.lastSent THEN "sent" ELSE @])
  /\ UNCHANGED <<lastExec, configured, activeModel, ragVars>>

\* The provider stream yields its chunk with done=true and the usage.
DoneChunk(t) ==
  /\ turns[t].pc = "stream"
  /\ ~turns[t].sawDone /\ ~turns[t].streamAborted
  /\ LET tr == turns[t]
         S1 == [Cur EXCEPT !.turns[t].sawDone = TRUE,
                           !.turns[t].lastUsage = ~tr.final]
     IN Apply(IF PassesOn(tr.final, tr.pending)
                THEN Yield(S1, t, Chunk(FALSE, FALSE, TRUE, TRUE)) ELSE S1)
  /\ UNCHANGED <<lastExec, configured, activeModel, ragVars>>


\* The provider stream is exhausted (a Gemini stream also when its signal
\* was aborted): the provider forgets its controller; the last call ends the
\* loop, a round without tool calls yields the usage and ends the loop, a
\* round with tool calls executes them.
StreamEnd(t) ==
  /\ turns[t].pc = "stream"
  /\ turns[t].sawDone \/ (turns[t].streamAborted /\ turns[t].provider = "gemini")
  /\ LET tr == turns[t]
         S1 == [Cur EXCEPT !.provCtl[tr.provider] = 0]
         S2 == IF tr.lastUsage
                 THEN Yield(S1, t, Chunk(FALSE, FALSE, TRUE, TRUE)) ELSE S1
         S3 == [S1 EXCEPT !.turns[t].msgs =
                             Append(@, ToolCallMsg(t, tr.round,
                                        [i \in 1..Len(tr.pending) |-> tr.pending[i].id]))]
     IN Apply(IF tr.final THEN LoopReturns(S1, t)
              ELSE IF tr.pending = <<>>
                THEN (IF Alive(S2, t)
                        THEN LoopReturns([S2 EXCEPT !.turns[t].everyCallTools = FALSE], t)
                        ELSE S2)
              ELSE ExecFrom(S3, t, 1))
  /\ UNCHANGED <<lastExec, configured, activeModel, ragVars>>

\* The provider call or its stream throws: e is the provider's error, or the
\* abort error of an OpenAI stream whose controller was aborted.
StreamError(t, e) ==
  /\ turns[t].pc = "stream"
  /\ ~turns[t].sawDone
  /\ IF turns[t].streamAborted
       THEN turns[t].provider = "openai" /\ e = ErrAborted
       ELSE e \in ProviderErrors
  /\ Apply(Throw(Cur, t, e))
  /\ UNCHANGED <<lastExec, configured, activeModel, ragVars>>

\* The executor awaited by ToolRegistry.execute settles.
ToolFinish(t, exec) ==
  /\ turns[t].pc = "toolrun"
  /\ Apply(ToolSettles(Cur, t, exec))
  /\ UNCHANGED <<lastExec, configured, activeModel, ragVars>>

\* ipcMain.handle('model:switch')
SwitchModel(p, m) ==
  /\ p \in configured
  /\ m \in ProviderModels[p]
  /\ activeModel # [provider |-> p, id |-> m]
  /\ activeModel' = [provider |-> p, id |-> m]
  /\ UNCHANGED <<callCount, lastExec, configured, provCtl, active, turns,
                 history, usage, lastSent, ragVars>>

(***************************************************************************)
(* SpecTurn: one turn with every input, one tool call per response.        *)
(* SpecChat: overlapping turns.                                            *)
(***************************************************************************)
InitTurn == InitChatWith(SUBSET Providers)

NextTurn ==
  \/ \E rule \in Utterances, specialty \in BOOLEAN : Send(1, rule, specialty)
  \/ \E outcome \in {"results", "empty"} : RagDone(1, outcome)
  \/ turns[1].pending = <<>> /\ \E k \in DOMAIN ModelToolCalls : ToolCallChunk(1, k)
  \/ TextChunk(1)
  \/ DoneChunk(1)
  \/ StreamEnd(1)
  \/ \E e \in ProviderErrors \cup {ErrAborted} : StreamError(1, e)
  \/ \E exec \in ExecutorOutcomes : ToolFinish(1, exec)
  \/ \E p \in Providers : \E m \in ProviderModels[p] : SwitchModel(p, m)

SpecTurn == InitTurn /\ [][NextTurn]_vars


\* Overlapping turns: both providers have a key; the messages are a file
\* request (tools, no retrieval) or a translation (retrieval, no tools).
\* Each turn's model asks for tools in its first MaxChatRounds rounds only.
ChatUtterances == {"file_operation", "translation"}
ChatErrors == {Err429, ErrNetwork}

InitChat == InitChatWith({Providers})

NextChat ==
  \E t \in Turns :
    \/ \E rule \in ChatUtterances : Send(t, rule, FALSE)
    \/ RagDone(t, "results")
    \/ /\ turns[t].round < MaxChatRounds /\ turns[t].pending = <<>>
       /\ ToolCallChunk(t, "ok")
    \/ TextChunk(t)
    \/ DoneChunk(t)
    \/ StreamEnd(t)
    \/ \E e \in ChatErrors \cup {ErrAborted} : StreamError(t, e)
    \/ \E exec \in {"success", "hangs"} : ToolFinish(t, exec)

SpecChat == InitChat /\ [][NextChat]_vars


(***************************************************************************)
(* Properties of the tool loop, the fallback and the cancellation.         *)
(***************************************************************************)

\* C1: a run of the tool loop makes at most MAX_TOOL_ROUNDS (5) model calls
\* with tool definitions; when each of them asked for a tool, exactly one
\* more call follows, without tool definitions, the loop ends after it, and
\* the text that call produces is delivered.
C1_ToolLoopBound ==
  \A t \in Turns :
    LET tr == turns[t] IN
    /\ tr.round <= MAX_TOOL_ROUNDS
    /\ tr.callsWithTools <= MAX_TOOL_ROUNDS
    /\ tr.callsPlain <= 1
    /\ tr.round = MAX_TOOL_ROUNDS =>
         /\ tr.final
         /\ tr.callsWithTools = MAX_TOOL_ROUNDS
         /\ tr.callsPlain = 1
         /\ tr.pc \in {"stream", "done"}
    /\ (tr.round = MAX_TOOL_ROUNDS /\ tr.result = "completed") =>
         tr.finalText # "produced"

C1_Witness ==
  \E t \in Turns :
    /\ turns[t].result = "completed"
    /\ turns[t].round = MAX_TOOL_ROUNDS
    /\ turns[t].callsWithTools = MAX_TOOL_ROUNDS
    /\ turns[t].callsPlain = 1
    /\ turns[t].finalText = "sent"

\* C2: when the primary loop failed with an error whose message contains
\* "429" and the fallback provider is configured, the tool loop was started
\* from its beginning against the fallback provider and model, exactly once,
\* whatever became of that second run.
C2_FallbackExactlyOnce ==
  \A t \in Turns :
    LET tr == turns[t] IN
    /\ tr.fallbackRuns <= 1
    /\ (/\ tr.primaryErr.isError
        /\ "429" \in tr.primaryErr.frags
        /\ FALLBACK_MODELS[tr.sel.provider].provider \in configured) =>
         /\ tr.fallbackRuns = 1
         /\ tr.loopRuns = 2
         /\ tr.attempt = "fallback"
         /\ tr.provider = FALLBACK_MODELS[tr.sel.provider].provider
         /\ tr.model = FALLBACK_MODELS[tr.sel.provider].model

C2_Witness ==
  \E t \in Turns :
    /\ turns[t].primaryErr = Err429
    /\ FALLBACK_MODELS[turns[t].sel.provider].provider \in configured
    /\ turns[t].attempt = "fallback"
    /\ turns[t].result = "error"
    /\ turns[t].fallbackRuns = 1

\* C3: every usage record of a turn that completed through the fallback
\* names the fallback provider and the fallback model.
C3_UsageNamesFallback ==
  \A t \in Turns :
    (turns[t].result = "completed" /\ turns[t].attempt = "fallback") =>
      \A i \in DOMAIN usage :
        usage[i].turn = t =>
          /\ usage[i].provider = FALLBACK_MODELS[turns[t].sel.provider].provider
          /\ usage[i].model = FALLBACK_MODELS[turns[t].sel.provider].model


\* C7: a new message cancels the turn in flight, and from then on no text,
\* tool-call, done or error fragment of the cancelled turn is delivered: every
\* delivery is made by a turn that is not cancelled, the newest one.
C7_OnlyNewestTurnDelivered ==
  [][ /\ (active # 0 /\ active' # 0 /\ active' # active) => turns'[active].aborted
      /\ lastSent' # lastSent =>
           /\ ~turns'[lastSent'.turn].aborted
           /\ \A u \in Turns : u > lastSent'.turn => turns'[u].pc = "idle" ]_vars

C7_Witness ==
  /\ turns[1].aborted
  /\ turns[1].sent.primary
  /\ turns[1].result = "cancelled"
  /\ turns[2].result = "completed"
  /\ lastSent.turn = 2

\* C8: a new message leaves a running tool execution of the cancelled turn
\* running; once it has settled, the cancelled turn delivers nothing, and no
\* reply of a cancelled turn is in the conversation history.
C8_CancelledToolResultDiscarded ==
  /\ [](\A t \in Turns :
          turns[t].aborted =>
            \A i \in DOMAIN history :
              ~(history[i].role = "assistant" /\ history[i].turn = t))
  /\ [][\A t \in Turns :
          /\ (turns[t].pc = "toolrun" /\ ~turns[t].aborted /\ turns'[t].aborted) =>
               /\ turns'[t].pc = "toolrun"
               /\ turns'[t].toolIdx = turns[t].toolIdx
               /\ turns'[t].pending = turns[t].pending
          /\ (turns'[t].discarded /\ lastSent' # lastSent) => lastSent'.turn # t]_vars

C8_Witness ==
  \E t \in Turns :
    /\ turns[t].discarded
    /\ turns[t].pc = "done"
    /\ turns[t].result = "cancelled"
    /\ lastSent.turn # t
    /\ \A i \in DOMAIN history : history[i].role = "assistant" => history[i].turn # t


(***************************************************************************)
(* SpecRag: concurrent RAGEngine calls on one persona.                     *)
(***************************************************************************)
InitRagEngine ==
  /\ InitRag
  /\ InitKb
  /\ callCount = 0
  /\ lastExec = None
  /\ configured = {}
  /\ activeModel = InitialActiveModel({})
  /\ provCtl = [p \in Providers |-> 0]
  /\ active = 0
  /\ turns = <<>>
  /\ history = <<>>
  /\ usage = <<>>
  /\ lastSent = [kind |-> "none", turn |-> 0, seq |-> 0]

NextRag ==
  \E o \in RagOps :
    \/ \E c \in Personas : SearchStart(o, c)
    \/ SearchCacheLookup(o)
    \/ LoadStatic(o)
    \/ LoadLearned(o)
    \/ \E c \in Personas, ix \in IndexTypes : IndexStart(o, c, ix)
    \/ IndexWrite(o)
    \/ IndexDone(o)
    \/ \E c \in Personas, ix \in IndexTypes : DeleteStart(o, c, ix)
    \/ DeleteWrite(o)
    \/ DeleteDone(o)

SpecRag == InitRagEngine /\ [][NextRag]_vars

\* C9: a search that started after an index write completed takes its
\* lexical candidates from a chunk list that reflects the write: it holds
\* every chunk committed before the search started and still in the store,
\* and none that a deleteSource completed before the search had removed.
C9_SearchSeesCompletedWrites ==
  \A o \in RagOps :
    (ops[o].kind = "search" /\ ops[o].pc = "done") =>
      /\ (ops[o].mustHave \ ragLog.gone) \subseteq ops[o].candidates
      /\ ops[o].candidates \cap ops[o].mustNot = {}


(***************************************************************************)
(* SpecLoop: one turn of a file request answered by Gemini, with up to     *)
(* MaxCallsPerRound tool calls per response, after a short or a long       *)
(* conversation.  SpecHang: the same turn with tools that succeed or hang, *)
(* and the timer of withTimeout, which the event loop always fires.        *)
(***************************************************************************)
OldHistory ==
  [i \in 1..(RecentHistory - 1) |->
     Msg(IF i % 2 = 1 THEN "user" ELSE "assistant", 0)]

InitLoop ==
  /\ InitRag
  /\ InitKb
  /\ callCount = 0
  /\ lastExec = None
  /\ configured = {"gemini"}
  /\ activeModel = InitialActiveModel(configured)
  /\ provCtl = [p \in Providers |-> 0]
  /\ active = 0
  /\ turns = [t \in Turns |-> IdleTurn]
  /\ history \in {<<>>, OldHistory}
  /\ usage = <<>>
  /\ lastSent = [kind |-> "none", turn |-> 0, seq |-> 0]

\* setTimeout of withTimeout fires while the executor is pending.
ToolTimeoutMutant(t) == turns[t].pc = "toolrun" /\ FALSE /\ UNCHANGED vars
ToolTimeout(t) == ToolFinish(t, "hangs")

NextLoop ==
  \/ Send(1, "file_operation", FALSE)
  \/ \E k \in {"ok", "blocked"} : ToolCallChunk(1, k)
  \/ TextChunk(1)
  \/ DoneChunk(1)
  \/ StreamEnd(1)
  \/ \E exec \in {"success", "throws"} : ToolFinish(1, exec)
  \/ ToolTimeout(1)

SpecLoop == InitLoop /\ [][NextLoop]_vars

InitHang == InitChatWith({{"gemini"}})

NextHang ==
  \/ Send(1, "file_operation", FALSE)
  \/ ToolCallChunk(1, "ok")
  \/ DoneChunk(1)
  \/ StreamEnd(1)
  \/ ToolFinish(1, "success")
  \/ ToolTimeout(1)

SpecHang == InitHang /\ [][NextHang]_vars /\ WF_vars(ToolTimeout(1))


\* C11: when the timer of withTimeout fires for an executor that has not
\* settled, execute returns a failure result and the loop goes on with the
\* next tool call of the round or with the next round; and a turn does not
\* wait for executors forever.
ToolWait(t, r, i) ==
  turns[t].pc = "toolrun" /\ turns[t].round = r /\ turns[t].toolIdx = i

C11_HungToolReleased ==
  /\ [][\A t \in Turns :
          (/\ turns[t].pc = "toolrun"
           /\ ~ToolWait(t, turns[t].round, turns[t].toolIdx)'
           /\ turns'[t].lastResult.error = "timeout") =>
            /\ ~turns'[t].lastResult.success
            /\ \/ /\ turns'[t].pc = "toolrun"
                  /\ turns'[t].round = turns[t].round
                  /\ turns'[t].toolIdx > turns[t].toolIdx
               \/ /\ turns'[t].pc \in {"stream", "done"}
                  /\ turns'[t].round = turns[t].round + 1]_vars
  /\ \A t \in Turns : (turns[t].pc = "toolrun") ~> (turns[t].pc # "toolrun")

C11_Witness ==
  \E t \in Turns :
    /\ turns[t].lastResult = [success |-> FALSE, error |-> "timeout", running |-> TRUE]
    /\ turns[t].pc = "stream"
    /\ turns[t].round > 0


\* C12: in the message list of a tool loop every assistant tool-call
\* message is followed by the result messages of its calls, one per call in
\* emission order; there is one tool-call message per round, rounds follow
\* each other in order, and a model call is in flight only when every result
\* of the round before it is in the list.
ToolCallPositions(M) ==
  {k \in DOMAIN M : M[k].role = "assistant" /\ M[k].ids # <<>>}

C12_SequentialRounds ==
  \A t \in Turns :
    LET tr == turns[t]
        M == tr.msgs
        calls == ToolCallPositions(M)
        last == CHOOSE k \in calls : \A j \in calls : j <= k
    IN tr.pc \in {"stream", "toolrun"} =>
         /\ \A k \in calls : \A i \in 1..Len(M[k].ids) :
              k + i <= Len(M) => M[k + i] = ToolResultMsg(t, M[k].round, M[k].ids[i])
         /\ \A k \in calls :
              k + Len(M[k].ids) < Len(M) =>
                /\ k + Len(M[k].ids) + 1 \in calls
                /\ M[k + Len(M[k].ids) + 1].round = M[k].round + 1
         /\ \A k1, k2 \in calls : M[k1].round = M[k2].round => k1 = k2
         /\ tr.compaction.from = <<>> =>
              \A m \in DOMAIN M :
                M[m].role = "tool" =>
                  \E k \in calls : k < m /\ m <= k + Len(M[k].ids)
         /\ (tr.pc = "stream" /\ tr.round > 0) =>
              /\ calls # {}
              /\ M[last].round = tr.round - 1
              /\ last + Len(M[last].ids) = Len(M)
         /\ tr.pc = "toolrun" =>
              /\ calls # {}
              /\ M[last].round = tr.round
              /\ M[last].ids = [i \in 1..Len(tr.pending) |-> tr.pending[i].id]
              /\ Len(M) = last + tr.toolIdx - 1

C12_Witness ==
  \E t \in Turns :
    /\ turns[t].pc = "stream"
    /\ turns[t].round = 2
    /\ \E k \in ToolCallPositions(turns[t].msgs) :
         /\ turns[t].msgs[k].round = 1
         /\ Len(turns[t].msgs[k].ids) = 2
         /\ k + 2 = Len(turns[t].msgs)


\* C17: a message list longer than MAX_CONTEXT_MESSAGES (30) at the end of a
\* tool round is replaced by its system messages followed by its most recent
\* messages in their order, at most 30 in all; a model call after a tool
\* round is made with at most 30 messages.
IsSystem(m) == m.role = "system"

C17_CompactionKeepsRecent ==
  \A t \in Turns :
    LET tr == turns[t]
        from == tr.compaction.from
        to == tr.compaction.to
        system == SelectSeq(from, IsSystem)
        rest == Len(to) - Len(system)
    IN /\ (tr.pc = "stream" /\ tr.round > 0) => Len(tr.msgs) <= MAX_CONTEXT_MESSAGES
       /\ from # <<>> =>
            /\ Len(from) > MAX_CONTEXT_MESSAGES
            /\ Len(to) <= MAX_CONTEXT_MESSAGES
            /\ rest >= 0
            /\ SubSeq(to, 1, Len(system)) = system
            /\ SubSeq(to, Len(system) + 1, Len(to))
                 = SubSeq(from, Len(from) - rest + 1, Len(from))
            /\ Len(to) = MAX_CONTEXT_MESSAGES

C17_Witness ==
  \E t \in Turns :
    /\ Len(turns[t].compaction.from) > MAX_CONTEXT_MESSAGES + 1
    /\ turns[t].pc = "stream"
    /\ Len(turns[t].msgs) = MAX_CONTEXT_MESSAGES
    /\ turns[t].msgs = turns[t].compaction.to

\* C18: a primary error that is not quota- or auth-shaped, or whose fallback
\* provider is not registered, starts no second tool loop and reaches the
\* handler's catch block as the error that was thrown.
C18_NoRetryErrorPropagates ==
  \A t \in Turns :
    LET tr == turns[t] IN
    (tr.primaryErr.isError
       /\ ~(isQuotaOrAuthError(tr.primaryErr)
             /\ FALLBACK_MODELS[tr.sel.provider].provider \in configured))
    => /\ tr.pc = "done"
       /\ tr.loopRuns = 1 /\ tr.fallbackRuns = 0
       /\ tr.caught = tr.primaryErr
       /\ tr.result \in {"error", "cancelled"}

C18_Witness ==
  /\ turns[1].primaryErr = Err429
  /\ configured = {"gemini"}
  /\ turns[1].sel.provider = "gemini"
  /\ turns[1].caught = Err429
  /\ turns[1].result = "error"
  /\ turns[1].round > 0

RetrievalUtterances == {"knowledge_query", "code_generation", "none"}

InitRetrieval == InitChatWith(SUBSET Providers)

NextRetrieval ==
  \/ \E rule \in RetrievalUtterances, specialty \in BOOLEAN : Send(1, rule, specialty)
  \/ \E outcome \in RetrievalOutcomes : RagDone(1, outcome)
  \/ turns[1].pending = <<>> /\ ToolCallChunk(1, "ok")
  \/ TextChunk(1)
  \/ DoneChunk(1)
  \/ StreamEnd(1)
  \/ \E e \in ProviderErrors : StreamError(1, e)
  \/ \E exec \in {"success", "failure"} : ToolFinish(1, exec)

SpecRetrieval == InitRetrieval /\ [][NextRetrieval]_vars

\* C20: a turn whose retrieval threw goes on with an empty retrieved context
\* and makes its model call; an error its handler catches is one thrown by
\* the tool loop (a provider's, an abort, a tool's), never the retrieval's.
C20_RetrievalFailureDegrades ==
  \A t \in Turns :
    LET tr == turns[t] IN
    tr.ragFailed
    => /\ ~tr.ragContext
       /\ tr.loopRuns >= 1
       /\ tr.callsWithTools + tr.callsPlain >= 1
       /\ tr.sel.provider \in configured
            => (tr.pc = "stream" \/ tr.sent.primary \/ tr.primaryErr.isError
                \/ tr.result = "cancelled")
       /\ tr.caught.isError => tr.caught \in ProviderErrors \cup {ErrAborted, ErrType}

C20_Witness ==
  /\ turns[1].ragFailed
  /\ turns[1].result = "completed"
  /\ turns[1].sent.primary /\ ~turns[1].sent.fallback

(***************************************************************************)
(* SpecSearch: the fusion and rerank steps of one search call, for every   *)
(* pair of ranked lists and every reply of the reranker.                   *)
(***************************************************************************)
InitIdleChat ==
  /\ callCount = 0
  /\ lastExec = None
  /\ configured = {}
  /\ activeModel = InitialActiveModel({})
  /\ provCtl = [p \in Providers |-> 0]
  /\ active = 0
  /\ turns = <<>>
  /\ history = <<>>
  /\ usage = <<>>
  /\ lastSent = [kind |-> "none", turn |-> 0, seq |-> 0]

InitSearch ==
  /\ InitIdleChat
  /\ InitRag
  /\ pipeline \in SearchInputs
  /\ dataDir = EmptyDataDir
  /\ boot = IdleBoot

NextSearch ==
  \/ SearchFuse
  \/ \E llm \in LlmOutcomes : SearchRerank(llm)

SpecSearch == InitSearch /\ [][NextSearch]_vars

\* C13: when the reranker is called and its call throws, or its reply holds
\* no index array that parses, search returns exactly topK results: the
\* first topK of the fused list, in the fused order.
C13_RerankFallsBackToFusedOrder ==
  (pipeline.pc = "done" /\ pipeline.reranked
     /\ (pipeline.llm.threw \/ NoIndexArray(pipeline.llm)))
  => /\ Len(pipeline.results) = pipeline.topK
     /\ pipeline.results = SubSeq(pipeline.merged, 1, pipeline.topK)

C13_Witness ==
  /\ pipeline.pc = "done" /\ pipeline.reranked
  /\ NoIndexArray(pipeline.llm)
  /\ RegexMatch(pipeline.llm.text) # <<>>
  /\ pipeline.topK = 2 /\ Len(pipeline.merged) = 3
  /\ pipeline.merged # pipeline.semanticResults
  /\ pipeline.results = SubSeq(pipeline.merged, 1, 2)

(***************************************************************************)
(* SpecBoot: starts of the application on one dataDir.                     *)
(***************************************************************************)
InitStartup ==
  /\ InitIdleChat
  /\ InitRag
  /\ pipeline = IdlePipeline
  /\ InitBoot

SpecBoot == InitStartup /\ [][NextBoot]_vars

\* C15: a start that finds a marker other than the configured
\* `${modelName}:${dimensions}` leaves no chunk in any index of any persona
\* and the marker naming the configured model; a start that finds the
\* marker of the configured model leaves every index as it was.
C15_MarkerMismatchWipesIndexes ==
  [][(boot.pc = "marker" /\ boot'.pc = "load")
       => IF dataDir.marker = boot.model
            THEN dataDir'.index = dataDir.index
          ELSE IF dataDir.marker # "none"
            THEN dataDir'.index = EmptyIndexes /\ dataDir'.marker = boot.model
          ELSE TRUE]_vars

\* C16: the bootstrap of a persona whose static index holds chunks leaves
\* that static index as it was.
C16_BootstrapIdempotent ==
  [][\A p \in KnowledgePersonas :
       (boot.pc = "load" /\ CHARACTER_KNOWLEDGE[boot.i] = p
          /\ count(dataDir.index[p]["static"]) > 0)
       => dataDir'.index[p]["static"] = dataDir.index[p]["static"]]_vars

(***************************************************************************)
(* SpecEngine: indexChunks, deleteSource and getStats calls on a loaded    *)
(* knowledge base.                                                         *)
(***************************************************************************)
InitCalls ==
  /\ InitIdleChat
  /\ InitRag
  /\ pipeline = IdlePipeline
  /\ InitEngine

SpecEngine == InitCalls /\ [][NextEngine]_vars

\* C14: getStats right after an indexChunks call of N >= 1 raw chunks of one
\* sourceUri reports N more chunks for that index than there were and lists
\* the sourceUri; after deleteSource for a sourceUri the index holds no
\* chunk of it and getStats does not list it.
C14_IndexStatsDeleteRoundTrip ==
  LET call == boot.call
      prev == boot.prev
  IN /\ (call.op = "getStats" /\ prev.op = "indexChunks" /\ prev.returned >= 1
           /\ call.characterId = prev.characterId)
        => /\ boot.stats[prev.indexType].count = prev.before + prev.returned
           /\ prev.sourceUri \in boot.stats[prev.indexType].sources
     /\ (call.op = "deleteSource")
        => /\ \A it \in dataDir.index[call.characterId][call.indexType] :
                it.sourceUri # call.sourceUri
           /\ call.sourceUri \notin
                getStats(dataDir, call.characterId)[call.indexType].sources
     /\ (call.op = "getStats" /\ prev.op = "deleteSource"
           /\ call.characterId = prev.characterId)
        => prev.sourceUri \notin boot.stats[prev.indexType].sources

C14_Witness ==
  /\ boot.call.op = "getStats" /\ boot.prev.op = "deleteSource"
  /\ boot.prev.sourceUri = UploadUri /\ boot.prev.indexType = "learned"
  /\ boot.prev.before = MaxRawChunks
  /\ boot.stats.learned = [count |-> 0, sources |-> {}]
  /\ boot.stats.static.count > 0

(***************************************************************************)
(* SpecSession: chat:send invocations that overlap while the model asks    *)
(* for several tools in one reply; all turns share the one ToolRegistry.   *)
(***************************************************************************)
InitSession == InitChatWith({{"gemini"}})

NextSession ==
  \E t \in Turns :
    \/ Send(t, "file_operation", FALSE)
    \/ turns[t].round < MaxChatRounds /\ \E k \in {"ok", "blocked"} : ToolCallChunk(t, k)
    \/ TextChunk(t)
    \/ DoneChunk(t)
    \/ StreamEnd(t)
    \/ StreamError(t, ErrNetwork)
    \/ ToolFinish(t, "success")

SpecSession == InitSession /\ [][NextSession]_vars

\* The chat:send invocation that started last.
CurrentTurn == CHOOSE t \in Turns \cup {0} :
  /\ t # 0 => turns[t].pc # "idle"
  /\ \A u \in Turns : u > t => turns[u].pc = "idle"

\* C21: the start of a turn leaves the call counter at zero, and a step
\* that raises the counter is a validation made by the turn that started
\* last: no tool call of an earlier turn counts against the ceiling of the
\* current turn.
C21_CounterCountsCurrentTurnOnly ==
  [][/\ \A t \in Turns :
          (turns[t].pc = "idle" /\ turns'[t].pc # "idle") => callCount' = 0
     /\ callCount' > callCount
          => /\ turns'[CurrentTurn].pc = "toolrun"
             /\ turns'[CurrentTurn].countBefore = callCount
             /\ turns'[CurrentTurn] # turns[CurrentTurn]]_vars

(***************************************************************************)
(* SpecCache: the chunk cache of the keyword search over many personas.    *)
(* A persona is known by its number, a chunk list by its length; the       *)
(* persisted indices do not change.                                        *)
(***************************************************************************)
MaxPersonas == 21        \* personas whose knowledge is searched
MaxLoads == 2            \* getAllChunks calls in flight at a time
MAX_CHUNKS_PER_ENTRY == 500
QUERY_TOP_K == 200

CachePersonas == 1..MaxPersonas
LoadSlots == 1..MaxLoads

\* The chunks per source of the two indices of a persona.
SourceSizes(c) ==
  IF c = 1 THEN [static |-> <<250, 150>>, learned |-> <<200, 120>>]
  ELSE IF c = 2 THEN [static |-> <<3>>, learned |-> <<>>]
  ELSE IF c % 3 = 0 THEN [static |-> <<200, 200>>, learned |-> <<200>>]
  ELSE [static |-> <<1>>, learned |-> <<1>>]

Min(a, b) == IF a < b THEN a ELSE b

\* for (const source of sources): the loop of getAllChunks over the sources
\* of one index; a query returns at most topK of the chunks of its source.
RECURSIVE LoadSources(_, _)
LoadSources(sizes, loaded) ==
  IF sizes = <<>> THEN loaded
  ELSE LET remaining == MAX_CHUNKS_PER_ENTRY - loaded IN
       IF remaining <= 0 THEN loaded
       ELSE LoadSources(Tail(sizes),
                        loaded + Min(Head(sizes), Min(remaining, QUERY_TOP_K)))

\* for (const indexType of ['static', 'learned'])
LoadAllChunks(indices) ==
  LoadSources(indices.learned, LoadSources(indices.static, 0))

\* ragLog.recent lists the cached keys by their last use, the oldest first:
\* a use is a call of getAllChunks returning the entry of the key.
\* ragLog.evicted is empty, or the key the last step dropped from the full
\* cache and the key that was the least recently used one.
Used(recent, key) == Append(SelectSeq(recent, LAMBDA k : k # key), key)
Forgotten(recent, cache) ==
  SelectSeq(recent, LAMBDA k : CacheHas(cache, k))

\* The persona never searched with the smallest number.
Fresh == ragLog.next

InitCache ==
  /\ InitKb
  /\ store = [c \in CachePersonas |-> SourceSizes(c)]
  /\ chunkCache = <<>>
  /\ ops = [o \in LoadSlots |-> IdleOp]
  /\ ragLog = [next |-> 2, recent |-> <<>>, evicted |-> <<>>]
  /\ callCount = 0
  /\ lastExec = None
  /\ configured = {}
  /\ activeModel = InitialActiveModel({})
  /\ provCtl = [p \in Providers |-> 0]
  /\ active = 0
  /\ turns = <<>>
  /\ history = <<>>
  /\ usage = <<>>
  /\ lastSent = [kind |-> "none", turn |-> 0, seq |-> 0]

\* getAllChunks(characterId) up to its first await: a hit moves the entry
\* last and returns it, a miss starts loading.
GetAllChunksStart(o, c) ==
  /\ ops[o].pc = "idle"
  /\ LET key == CacheKey(c) IN
     IF CacheHas(chunkCache, key)
       THEN LET cached == chunkCache[CacheGet(chunkCache, key)].chunks IN
            /\ chunkCache' = Append(CacheDelete(chunkCache, key),
                                    [key |-> key, chunks |-> cached])
            /\ ragLog' = [ragLog EXCEPT !.recent = Used(@, key),
                                         !.evicted = <<>>]
            /\ UNCHANGED ops
       ELSE /\ ops' = [ops EXCEPT ![o] = [IdleOp EXCEPT !.kind = "search",
                                            !.pc = "loadStatic",
                                            !.characterId = c]]
            /\ ragLog' = [ragLog EXCEPT !.next = IF c = @ THEN @ + 1 ELSE @,
                                         !.evicted = <<>>]
            /\ UNCHANGED chunkCache
  /\ UNCHANGED <<store, toolVars, chatVars, kbVars>>

\* getAllChunks after the two indices were read: the oldest key is dropped
\* when the cache is full, the list is stored under the key and returned.
GetAllChunksLoaded(o) ==
  /\ ops[o].pc = "loadStatic"
  /\ LET key == CacheKey(ops[o].characterId)
         full == Len(chunkCache) >= MAX_CACHE_ENTRIES
         room == IF full THEN Tail(chunkCache) ELSE chunkCache
         cache == CacheSet(room, key, LoadAllChunks(store[ops[o].characterId]))
     IN /\ chunkCache' = cache
        /\ ragLog' = [ragLog EXCEPT
                        !.recent = Used(Forgotten(@, cache), key),
                        !.evicted = IF full
                                      THEN <<Head(chunkCache).key, Head(ragLog.recent)>>
                                      ELSE <<>>]
  /\ ops' = [ops EXCEPT ![o] = IdleOp]
  /\ UNCHANGED <<store, toolVars, chatVars, kbVars>>

\* deleteSource(characterId, sourceUri) of a source the index does not hold:
\* the store removes nothing and the key of the persona is invalidated.
DeleteAbsentSource(c) ==
  /\ chunkCache' = invalidateChunkCache(chunkCache, c)
  /\ ragLog' = [ragLog EXCEPT !.recent = Forgotten(@, chunkCache'),
                               !.evicted = <<>>]
  /\ UNCHANGED <<store, ops, toolVars, chatVars, kbVars>>

\* The persona a slot may load: the first slot persona 1 or a persona never
\* searched before, the second slot persona 1.
SlotPersonas(o) == (IF o = 1 THEN {1, Fresh} ELSE {1}) \cap CachePersonas

NextCache ==
  \/ \E o \in LoadSlots : \E c \in SlotPersonas(o) : GetAllChunksStart(o, c)
  \/ \E o \in LoadSlots : GetAllChunksLoaded(o)
  \/ CacheHas(chunkCache, CacheKey(1)) /\ DeleteAbsentSource(1)

SpecCache == InitCache /\ [][NextCache]_vars

\* C22: the cache holds at most 20 entries and an entry at most 500
\* chunks; when a load finds the cache full, the entry it drops is the
\* least recently used one.
C22_CacheBoundedLruEvicted ==
  /\ Len(chunkCache) <= MAX_CACHE_ENTRIES
  /\ \A i \in DOMAIN chunkCache : chunkCache[i].chunks <= MAX_CHUNKS_PER_ENTRY
  /\ ragLog.evicted # <<>> => ragLog.evicted[1] = ragLog.evicted[2]

\* C23: an indexChunks or deleteSource call on one index of a persona
\* leaves the other index of that persona and both indices of every other
\* persona as they were.
C23_OtherIndicesUntouched ==
  [][(boot'.calls > boot.calls /\ boot'.call.op \in {"indexChunks", "deleteSource"})
       => \A c \in KnowledgePersonas, ix \in IndexTypes :
            <<c, ix>> # <<boot'.call.characterId, boot'.call.indexType>>
              => dataDir'.index[c][ix] = dataDir.index[c][ix]]_vars

\* A deleteSource call removed the uploaded source from the static index of
\* a persona whose learned index holds chunks of the same source, with the
\* knowledge of another persona indexed.
C23_Witness ==
  /\ boot.call.op = "deleteSource" /\ boot.call.indexType = "static"
  /\ boot.call.sourceUri = UploadUri
  /\ boot.call.before > count(dataDir.index[boot.call.characterId]["static"])
  /\ \E it \in dataDir.index[boot.call.characterId]["learned"] :
        it.sourceUri = UploadUri
  /\ \E c \in KnowledgePersonas \ {boot.call.characterId} :
        dataDir.index[c]["static"] # {}

(***************************************************************************)
(* SpecFusion: mergeWithRRF on the lists of a search with the default      *)
(* topK.  The vector list is 1..m; the lexical list is a run of n chunk    *)
(* ids starting s places into the vector list, as it stands or reversed,   *)
(* so that a chunk of both lists takes every pair of positions.            *)
(***************************************************************************)
MaxListLen == 10         \* results in a list: 2 * topK
DEFAULT_TOP_K == 5

Reversed(q) == [i \in DOMAIN q |-> q[Len(q) + 1 - i]]

FusionInputs ==
  {[IdlePipeline EXCEPT !.pc = "fuse", !.topK = DEFAULT_TOP_K,
                        !.semanticResults = [i \in 1..m |-> i],
                        !.keywordResults =
                           IF rev THEN Reversed([i \in 1..n |-> s + i])
                           ELSE [i \in 1..n |-> s + i]] :
     m \in 1..MaxListLen, n \in 1..MaxListLen, s \in 0..MaxListLen,
     rev \in BOOLEAN}

InitFusion ==
  /\ InitIdleChat
  /\ InitRag
  /\ pipeline \in FusionInputs
  /\ dataDir = EmptyDataDir
  /\ boot = IdleBoot

SpecFusion == InitFusion /\ [][SearchFuse]_vars

InBoth(in, id) == Holds(in.semanticResults, id) /\ Holds(in.keywordResults, id)

\* C24: in the fused list every result found in both lists stands before
\* every result found in one list only, and is not cut while such a result
\* is kept.
C24_BothListsRankFirst ==
  pipeline.pc = "done" =>
    \A i \in DOMAIN pipeline.merged :
      ~InBoth(pipeline, pipeline.merged[i]) =>
        /\ \A j \in DOMAIN pipeline.merged :
             InBoth(pipeline, pipeline.merged[j]) => j < i
        /\ \A id \in 1..(2 * MaxListLen) :
             InBoth(pipeline, id) => Holds(pipeline.merged, id)

\* Two full lists whose only common result is the last of both: it is fused
\* to the first place.
C24_Witness ==
  /\ pipeline.pc = "done"
  /\ Len(pipeline.semanticResults) = MaxListLen
  /\ Len(pipeline.keywordResults) = MaxListLen
  /\ pipeline.keywordResults[MaxListLen] = pipeline.semanticResults[MaxListLen]
  /\ \A i \in 1..(MaxListLen - 1) :
       ~Holds(pipeline.semanticResults, pipeline.keywordResults[i])
  /\ pipeline.merged[1] = pipeline.semanticResults[MaxListLen]
  /\ Len(pipeline.merged) = 2 * DEFAULT_TOP_K

(***************************************************************************)
(* SpecChunker: chunkSections on one section.  A text is the sequence of   *)
(* its words and of the white space between them: a blank inside a         *)
(* paragraph, an empty line between paragraphs.  A word has a number (no   *)
(* two words of a section are the same), a length in characters, and ends  *)
(* a sentence or not.  No character is Korean: 3 characters per token.     *)
(***************************************************************************)
MaxParagraphs == 2       \* paragraphs of the section
MaxWords == 3            \* words of a paragraph
CHARS_PER_TOKEN == 3

WordLengths == {2, 5}
ChunkBudgets == {3}      \* config.maxTokens
OverlapBudgets == {1, 2} \* config.overlapTokens

Word(id, len, stop) == [k |-> "w", id |-> id, len |-> len, stop |-> stop]
Space == [k |-> "sp", id |-> 0, len |-> 1, stop |-> FALSE]
EmptyLine == [k |-> "par", id |-> 0, len |-> 2, stop |-> FALSE]

RECURSIVE TextLength(_)
TextLength(text) ==
  IF text = <<>> THEN 0 ELSE Head(text).len + TextLength(Tail(text))

\* Math.ceil(text.length / ratio)
estimateTokens(text) == (TextLength(text) + CHARS_PER_TOKEN - 1) \div CHARS_PER_TOKEN

\* Array.prototype.join
RECURSIVE Join(_, _)
Join(parts, sep) ==
  IF parts = <<>> THEN <<>>
  ELSE IF Len(parts) = 1 THEN parts[1]
  ELSE parts[1] \o <<sep>> \o Join(Tail(parts), sep)

\* String.prototype.split at the white space standing at the places in cuts
RECURSIVE SplitFrom(_, _, _, _)
SplitFrom(text, cuts, i, piece) ==
  IF i > Len(text) THEN <<piece>>
  ELSE IF i \in cuts THEN <<piece>> \o SplitFrom(text, cuts, i + 1, <<>>)
  ELSE SplitFrom(text, cuts, i + 1, Append(piece, text[i]))

\* text.split(/\n\n+/).filter((p) => p.trim().length > 0)
Paragraphs(text) ==
  SelectSeq(SplitFrom(text, {i \in DOMAIN text : text[i] = EmptyLine}, 1, <<>>),
            LAMBDA para : para # <<>>)

\* combined.split(/\s+/)
Words(text) == SplitFrom(text, {i \in DOMAIN text : text[i].k # "w"}, 1, <<>>)

\* text.split(/(?<=[.!?])\s+/)
Sentences(text) ==
  SplitFrom(text, {i \in DOMAIN text : /\ text[i].k # "w"
                                       /\ i > 1 /\ text[i - 1].stop}, 1, <<>>)

Flushed(chunks, current, sep) ==
  IF current # <<>> THEN Append(chunks, Join(current, sep)) ELSE chunks

\* splitLongParagraph: the loop over the sentences and the last push
RECURSIVE SentenceLoop(_, _, _, _, _)
SentenceLoop(sentences, maxTokens, chunks, current, currentTokens) ==
  IF sentences = <<>> THEN Flushed(chunks, current, Space)
  ELSE LET sentTokens == estimateTokens(Head(sentences))
           full == currentTokens + sentTokens > maxTokens /\ current # <<>>
       IN SentenceLoop(Tail(sentences), maxTokens,
                       IF full THEN Flushed(chunks, current, Space) ELSE chunks,
                       Append(IF full THEN <<>> ELSE current, Head(sentences)),
                       (IF full THEN 0 ELSE currentTokens) + sentTokens)

splitLongParagraph(text, maxTokens) ==
  SentenceLoop(Sentences(text), maxTokens, <<>>, <<>>, 0)

\* extractOverlap: the last Math.ceil(overlapTokens * 0.75) words.
extractOverlap(paragraphs, overlapTokens) ==
  LET combined == Join(paragraphs, EmptyLine)
      words == Words(combined)
      wordCount == (3 * overlapTokens + 3) \div 4
  IN IF Len(words) <= wordCount THEN combined
     ELSE Join(SubSeq(words, Len(words) - wordCount + 1, Len(words)), Space)

\* splitWithOverlap: the loop over the paragraphs and the last push
RECURSIVE ParagraphLoop(_, _, _, _, _, _)
ParagraphLoop(paragraphs, maxTokens, overlapTokens, chunks, current, currentTokens) ==
  IF paragraphs = <<>> THEN Flushed(chunks, current, EmptyLine)
  ELSE LET para == Head(paragraphs)
           paraTokens == estimateTokens(para)
       IN IF paraTokens > maxTokens
            THEN ParagraphLoop(Tail(paragraphs), maxTokens, overlapTokens,
                               Flushed(chunks, current, EmptyLine)
                                 \o splitLongParagraph(para, maxTokens),
                               <<>>, 0)
          ELSE IF currentTokens + paraTokens > maxTokens /\ current # <<>>
            THEN LET overlapText == extractOverlap(current, overlapTokens)
                     next == IF overlapText # <<>> THEN <<overlapText, para>>
                             ELSE <<para>>
                 IN ParagraphLoop(Tail(paragraphs), maxTokens, overlapTokens,
                                  Flushed(chunks, current, EmptyLine), next,
                                  estimateTokens(Join(next, EmptyLine)))
          ELSE ParagraphLoop(Tail(paragraphs), maxTokens, overlapTokens,
                             chunks, Append(current, para),
                             currentTokens + paraTokens)

splitWithOverlap(text, maxTokens, overlapTokens) ==
  ParagraphLoop(Paragraphs(text), maxTokens, overlapTokens, <<>>, <<>>, 0)

\* chunkSections for one section: the contents of its chunks
chunkSections(content, config) ==
  IF estimateTokens(content) <= config.maxTokens THEN <<content>>
  ELSE splitWithOverlap(content, config.maxTokens, config.overlapTokens)

\* The paragraphs a section is written from: the length and the end of
\* every word.
WordShapes == [len : WordLengths, stop : BOOLEAN]
ParagraphShapes == SeqsUpTo(WordShapes, MaxWords) \ {<<>>}
SectionShapes == SeqsUpTo(ParagraphShapes, MaxParagraphs) \ {<<>>}

SectionText(shape) ==
  Join([p \in DOMAIN shape |->
          Join([w \in DOMAIN shape[p] |->
                  <<Word(p * (MaxWords + 1) + w, shape[p][w].len, shape[p][w].stop)>>],
               Space)],
       EmptyLine)

InitChunker ==
  /\ InitIdleChat
  /\ InitRag
  /\ dataDir = EmptyDataDir
  /\ boot = IdleBoot
  /\ \E shape \in SectionShapes, maxTokens \in ChunkBudgets,
        overlapTokens \in OverlapBudgets :
       pipeline = [pc |-> "chunk", content |-> SectionText(shape),
                   config |-> [maxTokens |-> maxTokens,
                               overlapTokens |-> overlapTokens],
                   chunks |-> <<>>]

ChunkSection ==
  /\ pipeline.pc = "chunk"
  /\ pipeline' = [pipeline EXCEPT
       !.pc = "chunked",
       !.chunks = chunkSections(pipeline.content, pipeline.config)]
  /\ UNCHANGED <<toolVars, chatVars, store, chunkCache, ops, ragLog,
                 dataDir, boot>>

SpecChunker == InitChunker /\ [][ChunkSection]_vars

\* The end of a is the start of b, over at least one word.
SharesOverlap(a, b) ==
  \E n \in 1..Min(Len(a), Len(b)) :
    SubSeq(a, Len(a) - n + 1, Len(a)) = SubSeq(b, 1, n)

SingleSentence(chunk) ==
  Len(Sentences(chunk)) = 1 /\ \A i \in DOMAIN chunk : chunk[i] # EmptyLine

\* C25: the chunks of a section over the token budget overlap pairwise, the
\* end of a chunk being the start of the next, and a chunk is over the
\* budget only when it is one sentence.
C25_ChunksOverlapWithinBudget ==
  (pipeline.pc = "chunked"
     /\ estimateTokens(pipeline.content) > pipeline.config.maxTokens)
  => /\ \A i \in 1..(Len(pipeline.chunks) - 1) :
          SharesOverlap(pipeline.chunks[i], pipeline.chunks[i + 1])
     /\ \A i \in DOMAIN pipeline.chunks :
          \/ estimateTokens(pipeline.chunks[i]) <= pipeline.config.maxTokens
          \/ SingleSentence(pipeline.chunks[i])

\* C26: when a turn calls chat() on a provider, every stream of that
\* provider that another turn still reads, and that has not yielded its last
\* chunk, is aborted.
C26_NewChatAbortsEarlierStreams ==
  [][\A t \in Turns :
       (turns[t].pc # "stream" /\ turns'[t].pc = "stream")
       => \A u \in Turns \ {t} :
            (turns'[u].pc = "stream" /\ ~turns'[u].sawDone
               /\ turns'[u].provider = turns'[t].provider)
            => turns'[u].streamAborted]_vars

\* C27: the result ToolRegistry.execute resolves with carries the id of the
\* call, whether the call succeeded or failed.
C27_ResultCarriesCallId ==
  (lastExec # None /\ lastExec.res.outcome = "result")
  => lastExec.res.toolCallId = lastExec.call.id

(***************************************************************************)
(* SpecNoProvider: turns of an application started without any API key.    *)
(* A retrieval that was started settles.                                   *)
(***************************************************************************)
InitNoProvider == InitChatWith({{}})

RetrievalEnds(t) == \E outcome \in RetrievalOutcomes : RagDone(t, outcome)

NextNoProvider ==
  \E t \in Turns :
    \/ \E rule \in Utterances, specialty \in BOOLEAN : Send(t, rule, specialty)
    \/ RetrievalEnds(t)

SpecNoProvider ==
  /\ InitNoProvider /\ [][NextNoProvider]_vars
  /\ \A t \in Turns : WF_vars(RetrievalEnds(t))

\* C28: with no provider registered a turn waits for its retrieval only and
\* then ends: selectModel has returned its placeholder, no error reached the
\* handler's catch block, and a turn that was not cancelled has sent exactly
\* one fragment with done=true.
C28_NoProviderTurnEnds ==
  /\ [](\A t \in Turns :
          /\ turns[t].pc \in {"idle", "rag", "done"}
          /\ turns[t].pc = "done"
             => /\ turns[t].sel = [provider |-> "gemini", model |-> "gemini-2.0-flash"]
                /\ turns[t].caught = NoError
                /\ turns[t].result \in {"completed", "cancelled"}
                /\ turns[t].result = "completed"
                   => turns[t].sent.done = 1 /\ turns[t].sent.error = 0)
  /\ \A t \in Turns : (turns[t].pc # "idle") ~> (turns[t].pc = "done")

\* A turn whose retrieval threw has ended with its one done fragment.
C28_Witness ==
  /\ configured = {}
  /\ turns[1].pc = "done" /\ turns[1].result = "completed"
  /\ turns[1].ragFailed
  /\ turns[1].sent.done = 1

(***************************************************************************)
(* SpecCodeFallback: a code-review or code-generation request with both    *)
(* keys set, Gemini answering with a quota error or with a reply.          *)
(***************************************************************************)
CodeUtterances == {"code_review", "code_generation"}

InitCodeFallback == InitChatWith({Providers})

NextCodeFallback ==
  \/ \E rule \in CodeUtterances : Send(1, rule, FALSE)
  \/ \E outcome \in RetrievalOutcomes : RagDone(1, outcome)
  \/ turns[1].pending = <<>> /\ ToolCallChunk(1, "ok")
  \/ TextChunk(1)
  \/ DoneChunk(1)
  \/ StreamEnd(1)
  \/ StreamError(1, Err429)
  \/ \E exec \in {"success", "failure"} : ToolFinish(1, exec)

SpecCodeFallback == InitCodeFallback /\ [][NextCodeFallback]_vars

\* C29: a code-review or code-generation request whose primary Gemini loop
\* failed with a quota error is answered by OpenAI's gpt-4o.
C29_CodeFallbackIsGpt4o ==
  (/\ turns[1].attempt = "fallback"
   /\ turns[1].sel.provider = "gemini"
   /\ "429" \in turns[1].primaryErr.frags)
  => /\ turns[1].provider = "openai"
     /\ turns[1].model = "gpt-4o"

UsageRecords(t) == Cardinality({i \in DOMAIN usage : usage[i].turn = t})

\* C30: a turn answered by a registered provider that completed without
\* executing a tool has sent exactly one fragment with done=true, and its
\* token usage was recorded exactly once.
C30_OneDoneOneUsage ==
  \A t \in Turns :
    (/\ turns[t].result = "completed"
     /\ turns[t].provider \in configured
     /\ turns[t].lastResult = NoResult)
    => /\ turns[t].sent.done = 1
       /\ UsageRecords(t) = 1

\* C31: a turn whose signal was aborted by a newer message makes no further
\* model call, and the provider stream of the turn that stays the active one
\* is not aborted.
C31_SupersededTurnCallsNoModel ==
  [][/\ \A t \in Turns :
          turns[t].aborted => ~(turns[t].pc # "stream" /\ turns'[t].pc = "stream")
     /\ (active # 0 /\ active' = active /\ turns[active].pc = "stream")
          => (turns'[active].streamAborted => turns[active].streamAborted)]_vars

(***************************************************************************)
(* SpecHistory: plain chat turns of a persona whose stored history is      *)
(* empty, short, or already at the cap of MAX_HISTORY messages.            *)
(***************************************************************************)
FullHistory ==
  [i \in 1..MAX_HISTORY |-> Msg(IF i % 2 = 1 THEN "user" ELSE "assistant", 0)]

InitHistory ==
  /\ InitRag
  /\ InitKb
  /\ callCount = 0
  /\ lastExec = None
  /\ configured = {"gemini"}
  /\ activeModel = InitialActiveModel(configured)
  /\ provCtl = [p \in Providers |-> 0]
  /\ active = 0
  /\ turns = [t \in Turns |-> IdleTurn]
  /\ history \in {<<>>, OldHistory, FullHistory}
  /\ usage = <<>>
  /\ lastSent = [kind |-> "none", turn |-> 0, seq |-> 0]

NextHistory ==
  \E t \in Turns :
    \/ Send(t, "none", FALSE)
    \/ TextChunk(t)
    \/ DoneChunk(t)
    \/ StreamEnd(t)
    \/ StreamError(t, ErrNetwork)

SpecHistory == InitHistory /\ [][NextHistory]_vars

\* C32: when a turn has completed and no later turn has started, the stored
\* history ends with the assistant reply of that turn.
C32_HistoryEndsWithReply ==
  \A t \in Turns :
    (/\ turns[t].result = "completed"
     /\ \A u \in Turns : u > t => turns[u].pc = "idle")
    => /\ history # <<>>
       /\ history[Len(history)] = Msg("assistant", t)

\* C33: the fallback loop is started only by a turn whose primary attempt
\* has delivered no fragment and executed no tool, and no turn delivers
\* fragments of both attempts.
C33_FallbackOnlyBeforeOutput ==
  /\ [][\A t \in Turns :
          turns'[t].fallbackRuns > turns[t].fallbackRuns
          => /\ ~turns[t].sent.primary
             /\ turns[t].lastResult = NoResult]_vars
  /\ [](\A t \in Turns : ~(turns[t].sent.primary /\ turns[t].sent.fallback))

(***************************************************************************)
(* SpecCompaction: the message list of one tool loop whose model emits up  *)
(* to MaxRoundCalls tool calls per response, every tool resolving.  The    *)
(* list starts as buildMessages made it, after a short or a long           *)
(* conversation.                                                           *)
(***************************************************************************)
MaxRoundCalls == 6

\* One pass of the while body after the stream: the assistant tool-call
\* message, one result message per pending call, and the compaction.
RoundMessages(msgs, round, n) ==
  msgs \o <<ToolCallMsg(1, round, [i \in 1..n |-> i])>>
       \o [i \in 1..n |-> ToolResultMsg(1, round, i)]

InitCompaction ==
  /\ InitIdleChat
  /\ InitRag
  /\ dataDir = EmptyDataDir
  /\ boot = IdleBoot
  /\ \E h \in {<<>>, OldHistory} :
       pipeline = [round |-> 0,
                   currentMessages |-> buildMessages(Append(h, Msg("user", 1)), 1),
                   compaction |-> [from |-> <<>>, to |-> <<>>]]

ToolRound(n) ==
  /\ pipeline.round < MAX_TOOL_ROUNDS
  /\ LET pushed == RoundMessages(pipeline.currentMessages, pipeline.round, n)
     IN pipeline' = [round |-> pipeline.round + 1,
                     currentMessages |-> Compact(pushed),
                     compaction |->
                       IF Len(pushed) > MAX_CONTEXT_MESSAGES
                         THEN [from |-> pushed, to |-> Compact(pushed)]
                         ELSE pipeline.compaction]
  /\ UNCHANGED <<toolVars, chatVars, store, chunkCache, ops, ragLog,
                 dataDir, boot>>

NextCompaction == \E n \in 1..MaxRoundCalls : ToolRound(n)

SpecCompaction == InitCompaction /\ [][NextCompaction]_vars

\* C34: in the list a compaction leaves, every tool-result message comes
\* after the assistant tool-call message of its round that names its call.
C34_CompactionKeepsCallWithResult ==
  LET to == pipeline.compaction.to IN
  \A m \in DOMAIN to :
    to[m].role = "tool" =>
      \E k \in 1..(m - 1) :
        /\ to[k].role = "assistant"
        /\ to[k].round = to[m].round
        /\ \E i \in DOMAIN to[k].ids : to[k].ids[i] = to[m].ids[1]

\* C35: a start that finds the marker of another model and leaves any of the
\* old indices in place does not rewrite the marker to the configured model.
C35_MarkerRewrittenOnlyAfterWipe ==
  [][(/\ boot.pc = "marker"
      /\ boot'.pc = "load"
      /\ dataDir.marker \notin {"none", boot.model}
      /\ dataDir'.index # EmptyIndexes)
       => dataDir'.marker # boot.model]_vars

\* C37: the message list of the first model call of a turn holds the user
\* message of that turn once, in its last place.
C37_UtteranceOnceAndLast ==
  \A t \in Turns :
    (turns[t].pc = "stream" /\ turns[t].round = 0) =>
      LET M == turns[t].msgs IN
      /\ M # <<>>
      /\ M[Len(M)] = Msg("user", t)
      /\ Cardinality({k \in DOMAIN M : M[k] = Msg("user", t)}) = 1

\* C38: search returns at most topK results and no chunk twice, whatever the
\* reranker replies.
C38_AtMostTopKDistinct ==
  pipeline.pc = "done" =>
    /\ Len(pipeline.results) <= pipeline.topK
    /\ \A i, j \in DOMAIN pipeline.results :
         pipeline.results[i] = pipeline.results[j] => i = j

(***************************************************************************)
(* SpecQuery: search from its two vector queries on.  An index answers a   *)
(* query with hits, each a chunk id and a score level (0 stands for a      *)
(* score under minScore); the static index holds chunks 1..MaxStaticHits,  *)
(* the learned index the chunks after them.                                *)
(***************************************************************************)
MaxStaticHits == 2
MaxLearnedHits == 1
MaxScore == 2
QueryMinScore == 1

Hits(ids) ==
  {q \in SeqsUpTo([id : ids, score : 0..MaxScore], Cardinality(ids)) :
     \A i, j \in DOMAIN q : i # j => q[i].id # q[j].id}

\* What the two awaits of queryStore do for one index: getStore resolves or
\* rejects, index.queryItems resolves with hits or rejects.
StoreOutcomes(ids) ==
  {[getStore |-> "rejects", queryItems |-> "none", hits |-> <<>>],
   [getStore |-> "resolves", queryItems |-> "rejects", hits |-> <<>>]}
  \cup {[getStore |-> "resolves", queryItems |-> "resolves", hits |-> h] :
          h \in Hits(ids)}

QueryRejected == [rejected |-> TRUE, value |-> <<>>]
Resolved(value) == [rejected |-> FALSE, value |-> value]

\* VectraAdapter.query: the hits with score >= minScore.
query(o, minScore) ==
  IF o.queryItems = "rejects" THEN QueryRejected
  ELSE Resolved(SelectSeq(o.hits, LAMBDA r : r.score >= minScore))

\* queryStore: the await of getStore stands in the try, and its rejection
\* gives []; the promise of store.query is returned without an await, so the
\* promise of queryStore settles as that promise does.
queryStore(o) ==
  IF o.getStore = "rejects" THEN Resolved(<<>>)
  ELSE query(o, QueryMinScore)

\* Array.prototype.sort((a, b) => b.score - a.score): stable, descending.
RECURSIVE SortBySimilarity(_)
SortBySimilarity(q) ==
  IF q = <<>> THEN <<>>
  ELSE LET best == CHOOSE i \in DOMAIN q :
                     /\ \A j \in DOMAIN q : q[j].score <= q[i].score
                     /\ \A j \in 1..(i - 1) : q[j].score < q[i].score
       IN <<q[best]>> \o SortBySimilarity(SubSeq(q, 1, best - 1)
                                     \o SubSeq(q, best + 1, Len(q)))

allSemanticResults(staticResults, learnedResults, topK) ==
  SliceTo(SortBySimilarity(staticResults \o learnedResults), topK * 2)

QueryInputs ==
  {[IdlePipeline EXCEPT !.pc = "query", !.topK = k, !.useReranking = u,
                        !.keywordResults = w] :
     k \in 1..MaxTopK, u \in BOOLEAN,
     w \in {<<>>, <<MaxStaticHits + MaxLearnedHits>>, <<MaxStaticHits, 1>>}}

NoOutcome == [getStore |-> "none", queryItems |-> "none", hits |-> <<>>]

InitQuery ==
  /\ InitIdleChat
  /\ store = [c \in Personas |-> [ix \in IndexTypes |-> {}]]
  /\ chunkCache = <<>>
  /\ ragLog = [next |-> 1, committed |-> {}, removed |-> {}, gone |-> {}]
  /\ pipeline \in QueryInputs
  /\ dataDir = EmptyDataDir
  /\ boot = IdleBoot
  /\ ops = [static |-> NoOutcome, learned |-> NoOutcome]

\* search up to the end of Promise.all: a rejection of either queryStore
\* promise rejects search.
SearchQuery(static, learned) ==
  /\ pipeline.pc = "query"
  /\ LET staticResults == queryStore(static)
         learnedResults == queryStore(learned)
     IN IF staticResults.rejected \/ learnedResults.rejected
          THEN pipeline' = [pipeline EXCEPT !.pc = "rejected"]
          ELSE pipeline' = [pipeline EXCEPT
                 !.pc = "fuse",
                 !.semanticResults =
                    LET all == allSemanticResults(staticResults.value,
                                                  learnedResults.value,
                                                  pipeline.topK)
                    IN [i \in DOMAIN all |-> all[i].id]]
  /\ ops' = [static |-> static, learned |-> learned]
  /\ UNCHANGED <<toolVars, chatVars, store, chunkCache, ragLog, dataDir, boot>>

NextQuery ==
  \/ \E static \in StoreOutcomes(1..MaxStaticHits),
        learned \in StoreOutcomes((MaxStaticHits + 1)..(MaxStaticHits + MaxLearnedHits)) :
       SearchQuery(static, learned)
  \/ SearchFuse
  \/ \E llm \in {Threw, Replied(<<Open, Num(0), Close>>)} : SearchRerank(llm)

SpecQuery == InitQuery /\ [][NextQuery]_vars

Failed(o) == o.getStore = "rejects" \/ o.queryItems = "rejects"

KeptIds(o) ==
  LET kept == SelectSeq(o.hits, LAMBDA r : r.score >= QueryMinScore)
  IN {kept[i].id : i \in DOMAIN kept}

\* C39: when the query of one index fails and the query of the other index
\* answers, search is not rejected, and the semantic results are results of
\* the other index.
C39_FailedIndexGivesEmptyList ==
  \A a, b \in {"static", "learned"} :
    (/\ pipeline.pc # "query"
     /\ a # b
     /\ Failed(ops[a])
     /\ ~Failed(ops[b]))
    => /\ pipeline.pc # "rejected"
       /\ {pipeline.semanticResults[i] : i \in DOMAIN pipeline.semanticResults}
            = KeptIds(ops[b])

====
